---- MODULE Spec2Model ----
(***************************************************************************)
(* Multiboot2 boot information: tag builders, the blob assembler, the tag  *)
(* stream walk and the per-tag accessors, modelled at byte level.          *)
(* Bytes are integers 0..255, u32 fields are little-endian, offsets are    *)
(* 0-based as in the source and sequences are 1-based as in TLA+.          *)
(***************************************************************************)
EXTENDS Integers, Sequences, FiniteSets, TLC

VARIABLES
    pc,        \* position of the build / assemble / load / walk pipeline
    supplied,  \* what the caller handed to each tag constructor, in order
    boxes,     \* the Box<Tag> allocations the constructors returned
    buf,       \* the byte region handed to the decoder
    tamper,    \* how the region was damaged after assembly ("none" if not)
    cursor,    \* TagStream: byte offset of the next tag header
    limit,     \* TagStream: region length
    yielded,   \* TagStream: the tag views yielded so far
    error,     \* decode outcome: "none" or "StructuralError"
    reads,     \* number of leading bytes of buf any decode step has touched
    accessed,  \* the last command_line() call: index of the yielded tag, result
    modIter,   \* ModuleIter: its state, the cursor of its tag iterator, the views returned
    modSize,   \* the last module_size() call: index of the view, outcome, value
    sPc,       \* string tags: "idle", "raw", "view", "called"
    sKind,     \* string tags: which tag type the bytes are read as
    sBytes,    \* string tags: the bytes of one tag as found in a region
    sTag,      \* string tags: the typed view {size, string} cast from sBytes
    sResult,   \* string tags: what the accessor returned
    ePc,       \* EFI memory map: "idle", "tag", "iter", "finished", "panic", "fault"
    eDescs,    \* EFI memory map: the descriptors the producer packed
    eTag,      \* EFI memory map: the tag {size, desc_size, desc_version, memory_map}
    eI,        \* EFIMemoryAreaIter.i
    eEntries,  \* EFIMemoryAreaIter.entries
    eOut,      \* EFI memory map: what next() returned so far, with the offset read
    eBy,       \* EFI memory map: the constructor that was called
    eLen,      \* EFI memory map: the last len() call: i at the call, value
    fPc,       \* framebuffer: "idle", "raw", "view", "called"
    fBuilt,    \* framebuffer: the FramebufferType handed to FramebufferTag::new
    fBytes,    \* framebuffer: the bytes of the tag
    fTag,      \* framebuffer: the typed view {size, type_no, buffer} cast from fBytes
    fResult,   \* framebuffer: what buffer_type() returned
    xPc,       \* ELF sections: "idle", "tag", "iter", "finished", "panic", "fault"
    xMsg,      \* ELF sections: the message of the abort, if any
    xEntries,  \* ELF sections: the section headers the producer wrote
    xTag,      \* ELF sections: the typed view of the tag
    xOffset,   \* ELF sections: the offset handed to sections()
    xIter,     \* ElfSectionIter
    xOut,      \* ELF sections: the ElfSection values next() returned
    xAcc,      \* ELF sections: accessor values of the last section returned
    xEnd,      \* ELF sections: end_address() of the last section returned
    mPc,       \* memory map: "idle", "raw", "tag", "panic", "panic_add"
    mBytes,    \* memory map: the bytes of the tag
    mTag,      \* memory map: the typed view of the tag
    mShared,   \* memory map: the live views memory_areas() returned
    mMut,      \* memory map: "live" while the view of all_memory_areas_mut() is
    mEnd,      \* memory map: the last end_address() result
    conv,      \* memory area types: a value, its conversion and the conversion back
    smb        \* SMBIOS: the arguments of SmbiosTag::new, the tag, the fields read back

streamVars == <<pc, supplied, boxes, buf, tamper, cursor, limit, yielded, error, reads,
               accessed, modIter, modSize>>
strVars == <<sPc, sKind, sBytes, sTag, sResult>>
efiVars == <<ePc, eDescs, eTag, eI, eEntries, eOut, eBy, eLen>>
fbVars == <<fPc, fBuilt, fBytes, fTag, fResult>>
elfVars == <<xPc, xMsg, xEntries, xTag, xOffset, xIter, xOut, xAcc, xEnd>>
mmapVars == <<mPc, mBytes, mTag, mShared, mMut, mEnd>>

notStream == <<strVars, efiVars, fbVars, elfVars, mmapVars, conv, smb>>
notStr == <<streamVars, efiVars, fbVars, elfVars, mmapVars, conv, smb>>
notEfi == <<streamVars, strVars, fbVars, elfVars, mmapVars, conv, smb>>
notFb == <<streamVars, strVars, efiVars, elfVars, mmapVars, conv, smb>>
notElf == <<streamVars, strVars, efiVars, fbVars, mmapVars, conv, smb>>
notMmap == <<streamVars, strVars, efiVars, fbVars, elfVars, conv, smb>>
notConv == <<streamVars, strVars, efiVars, fbVars, elfVars, mmapVars, smb>>
notSmb == <<streamVars, strVars, efiVars, fbVars, elfVars, mmapVars, conv>>

----------------------------------------------------------------------------
(* Bounds of the model *)

MaxTags == 2        \* tags handed to the assembler
MaxStrChars == 1    \* characters of a command line string
MaxCut == 9         \* bytes cut off the end of a region
MaxStrBytes == 3    \* bytes in the string field of a string tag
MaxDescs == 2       \* descriptors in an EFI memory map
MaxPad == 8         \* bytes by which desc_size exceeds the descriptor size
MaxColors == 2      \* colours in a framebuffer palette
MaxSections == 2    \* section headers in an ELF sections tag
MaxAreas == 2       \* areas in a memory map tag
MaxViews == 2       \* views of the memory areas live at the same time
MaxTypeId == 15     \* largest small memory area type id converted
MaxTables == 3      \* bytes of SMBIOS tables

----------------------------------------------------------------------------
(* Primitive widths and byte helpers *)

SizeOfTagType == 4
SizeOfU32 == 4
SizeOfUsize == 8
Uninit == 0 - 1
OutOfBounds == 0 - 2

Max(a, b) == IF a >= b THEN a ELSE b

to_le_bytes(n) ==
    << n % 256, (n \div 256) % 256, (n \div 65536) % 256, (n \div 16777216) % 256 >>

\* u32 read at 0-based offset off. Values of 2^31 and more are represented by
\* U32Sat: the model compares such a value only with region lengths and with
\* 0 and 8, and every such comparison comes out the same.
U32Sat == 127 * 16777216 + 16777215

read_u32(b, off) ==
    IF b[off + 4] >= 128 THEN U32Sat
    ELSE b[off + 1] + 256 * b[off + 2] + 65536 * b[off + 3] + 16777216 * b[off + 4]

Zeros(n) == [i \in 1..n |-> 0]

\* Unsigned integers wider than the model's own are kept as little-endian
\* byte sequences.  AddBytes is the exact sum of two n-byte values in n + 1
\* bytes, MulBytes the exact product in 2n bytes.
RECURSIVE AddCarry(_, _, _)
AddCarry(a, b, c) ==
    IF a = <<>> THEN <<c>>
    ELSE LET t == a[1] + b[1] + c
         IN  <<t % 256>> \o AddCarry(Tail(a), Tail(b), t \div 256)

AddBytes(a, b) == AddCarry(a, b, 0)

RECURSIVE MulByte(_, _, _)
MulByte(x, b, c) ==
    IF b = <<>> THEN <<c>>
    ELSE LET t == x * b[1] + c
         IN  <<t % 256>> \o MulByte(x, Tail(b), t \div 256)

RECURSIVE MulAcc(_, _, _)
MulAcc(a, b, k) ==
    IF k > Len(a) THEN Zeros(2 * Len(a))
    ELSE LET row == Zeros(k - 1) \o MulByte(a[k], b, 0) \o Zeros(Len(a) - k)
         IN  SubSeq(AddBytes(row, MulAcc(a, b, k + 1)), 1, 2 * Len(a))

MulBytes(a, b) == MulAcc(a, b, 1)

LowHalf(w) == SubSeq(w, 1, Len(w) \div 2)
HighHalf(w) == SubSeq(w, Len(w) \div 2 + 1, Len(w))
IsZero(w) == \A i \in 1..Len(w) : w[i] = 0

----------------------------------------------------------------------------
(* Tag type codes *)

TagTypeEnd == 0
TagTypeCmdline == 1
TagTypeModule == 3
TagTypeElfSections == 9

----------------------------------------------------------------------------
(* Builder: boxed_dst_tag and the tag constructors *)

METADATA_SIZE == SizeOfTagType + SizeOfU32

\* Bytes of the allocation: header at 0..7, then an array of (size - 8) usize.
AllocSize(size) ==
    SizeOfTagType + SizeOfU32 + SizeOfUsize * (size - SizeOfTagType - SizeOfU32)

\* The allocation after the writes: typ at 0, size at size_offset, content
\* from inner_offset on; the rest of the allocation stays uninitialised.
boxed_dst_tag(typ, size, content) ==
    LET size_offset == SizeOfTagType
        inner_offset == SizeOfTagType + SizeOfU32
        n == Max(AllocSize(size), inner_offset + Len(content))
    IN  [ mem |-> [i \in 1..n |->
                     IF i <= size_offset THEN to_le_bytes(typ)[i]
                     ELSE IF i <= inner_offset THEN to_le_bytes(size)[i - size_offset]
                     ELSE IF i - inner_offset <= Len(content) THEN content[i - inner_offset]
                     ELSE Uninit],
          alloc |-> AllocSize(size),
          meta |-> Len(content) ]

\* CString::new: refuses a string with an interior NUL, else appends one NUL.
HasNul(s) == \E i \in 1..Len(s) : s[i] = 0
as_bytes_with_nul(s) == s \o <<0>>

CommandLineTag_new(command_line) ==
    LET bytes == as_bytes_with_nul(command_line)
        size == Len(bytes) + METADATA_SIZE
    IN  boxed_dst_tag(TagTypeCmdline, size, bytes)

ElfSectionsTag_new(number_of_sections, entry_size, shndx, sections) ==
    LET size == Len(sections) + METADATA_SIZE
        bytes == to_le_bytes(number_of_sections) \o to_le_bytes(entry_size)
                   \o to_le_bytes(shndx) \o sections
    IN  boxed_dst_tag(TagTypeElfSections, size, bytes)

\* StructAsBytes
byte_size(box) == read_u32(box.mem, SizeOfTagType)

struct_as_bytes_short(box) == [i \in 1..(byte_size(box) - 1) |-> box.mem[i]]

struct_as_bytes(box) == [i \in 1..byte_size(box) |-> box.mem[i]]

----------------------------------------------------------------------------
(* Assembler: header, 8-aligned tags, terminator *)

align_up(n, a) == ((n + a - 1) \div a) * a

Padding(size) == (8 - (size % 8)) % 8

TagSizeOf(tagbuf) == read_u32(tagbuf, SizeOfTagType)

RECURSIVE AssembleTags(_)
AssembleTags(bufs) ==
    IF bufs = <<>> THEN <<>>
    ELSE Head(bufs) \o Zeros(Padding(TagSizeOf(Head(bufs)))) \o AssembleTags(Tail(bufs))

RECURSIVE SumAligned(_)
SumAligned(bufs) ==
    IF bufs = <<>> THEN 0
    ELSE TagSizeOf(Head(bufs)) + Padding(TagSizeOf(Head(bufs))) + SumAligned(Tail(bufs))

Terminator == to_le_bytes(TagTypeEnd) \o to_le_bytes(8)

Assemble(bufs) ==
    LET total_size == 8 + SumAligned(bufs) + 8
    IN  to_le_bytes(total_size) \o to_le_bytes(0) \o AssembleTags(bufs) \o Terminator

TagBuffers == [i \in 1..Len(boxes) |-> struct_as_bytes(boxes[i])]

----------------------------------------------------------------------------
(* Inputs *)

\* UTF-8 encoded characters a caller may put into a &str: 'A', e-acute (two
\* bytes) and NUL.
Chars == { <<65>>, <<195, 169>>, <<0>> }

RECURSIVE StrsUpTo(_)
StrsUpTo(n) ==
    IF n = 0 THEN { <<>> }
    ELSE LET S == StrsUpTo(n - 1) IN S \cup { s \o c : s \in S, c \in Chars }

\* "GRUB 2.02"
GrubName == <<71, 82, 85, 66, 32, 50, 46, 48, 50>>

StrInputs == StrsUpTo(MaxStrChars) \cup { GrubName }

\* section bytes handed to ElfSectionsTag::new (two or three bytes, so that
\* every write of boxed_dst_tag stays inside its allocation)
SectionInputs == { <<1, 2>>, <<1, 2, 3>> }

UnknownTypes == { 100 }
ForeignTypes == { TagTypeModule } \cup UnknownTypes
ForeignBodies == { <<>>, <<7>>, <<1, 8, 0, 0, 0>>, <<7, 7, 7, 7, 7, 7, 7, 7>> }

PatchSizes == { 4, 16, 200 }

ForeignCmdlines == { <<>>, <<255, 0>>, <<195, 0>> }

----------------------------------------------------------------------------
(* Pipeline: build tags, assemble, (damage), load, walk *)

StreamInit ==
    /\ pc = "build"
    /\ supplied = <<>>
    /\ boxes = <<>>
    /\ buf = <<>>
    /\ tamper = "none"
    /\ cursor = 0
    /\ limit = 0
    /\ yielded = <<>>
    /\ error = "none"
    /\ reads = 0
    /\ accessed = [idx |-> 0, result |-> [kind |-> "none", str |-> <<>>]]
    /\ modIter = [pc |-> "idle", cursor |-> 0, out |-> <<>>]
    /\ modSize = [idx |-> 0, kind |-> "none", value |-> Zeros(4)]

NewCommandLine ==
    /\ UNCHANGED <<notStream, accessed, modIter, modSize>>
    /\ pc = "build"
    /\ Len(boxes) < MaxTags
    /\ \E s \in StrInputs :
         IF HasNul(s)
         THEN \* .expect("failed to create CString") aborts
              /\ pc' = "panic"
              /\ UNCHANGED <<supplied, boxes>>
         ELSE /\ boxes' = Append(boxes, CommandLineTag_new(s))
              /\ supplied' = Append(supplied,
                    [by |-> "CommandLineTag", typ |-> TagTypeCmdline,
                     body |-> as_bytes_with_nul(s)])
              /\ pc' = pc
    /\ UNCHANGED <<buf, tamper, cursor, limit, yielded, error, reads>>

NewElfSections ==
    /\ UNCHANGED <<notStream, accessed, modIter, modSize>>
    /\ pc = "build"
    /\ Len(boxes) < MaxTags
    /\ \E n \in {1, 2}, es \in {1}, shndx \in {0}, sections \in SectionInputs :
         /\ boxes' = Append(boxes, ElfSectionsTag_new(n, es, shndx, sections))
         /\ supplied' = Append(supplied,
               [by |-> "ElfSectionsTag", typ |-> TagTypeElfSections,
                body |-> to_le_bytes(n) \o to_le_bytes(es) \o to_le_bytes(shndx)
                           \o sections])
    /\ UNCHANGED <<pc, buf, tamper, cursor, limit, yielded, error, reads>>

\* A tag buffer {header, body} from another producer, of any type code.
ForeignTag ==
    /\ UNCHANGED <<notStream, accessed, modIter, modSize>>
    /\ pc = "build"
    /\ Len(boxes) < MaxTags
    /\ \E typ \in ForeignTypes, body \in ForeignBodies :
         /\ boxes' = Append(boxes,
               [mem |-> to_le_bytes(typ) \o to_le_bytes(8 + Len(body)) \o body,
                alloc |-> 8 + Len(body), meta |-> Len(body)])
         /\ supplied' = Append(supplied, [by |-> "foreign", typ |-> typ, body |-> body])
    /\ UNCHANGED <<pc, buf, tamper, cursor, limit, yielded, error, reads>>

\* A command line tag from another producer: a string field that is empty,
\* or one that is not UTF-8 before its NUL.
ForeignCommandLine ==
    /\ UNCHANGED <<notStream, accessed, modIter, modSize>>
    /\ pc = "build"
    /\ Len(boxes) < MaxTags
    /\ \E body \in ForeignCmdlines :
         /\ boxes' = Append(boxes,
               [mem |-> to_le_bytes(TagTypeCmdline) \o to_le_bytes(8 + Len(body)) \o body,
                alloc |-> 8 + Len(body), meta |-> Len(body)])
         /\ supplied' = Append(supplied,
               [by |-> "foreign", typ |-> TagTypeCmdline, body |-> body])
    /\ UNCHANGED <<pc, buf, tamper, cursor, limit, yielded, error, reads>>

AssembleBlob ==
    /\ UNCHANGED <<notStream, accessed, modIter, modSize>>
    /\ pc = "build"
    /\ buf' = Assemble(TagBuffers)
    /\ pc' = "blob"
    /\ UNCHANGED <<supplied, boxes, tamper, cursor, limit, yielded, error, reads>>

\* Offset in the assembled blob of the header of the i-th tag handed in.
RECURSIVE OrigOff(_)
OrigOff(i) ==
    IF i = 1 THEN 8
    ELSE OrigOff(i - 1) + align_up(byte_size(boxes[i - 1]), 8)

Overwrite(b, off, bytes) ==
    [i \in 1..Len(b) |->
        IF i > off /\ i <= off + Len(bytes) THEN bytes[i - off] ELSE b[i]]

\* The supplied buffer is shorter than the blob header says.
Truncate ==
    /\ UNCHANGED <<notStream, accessed, modIter, modSize>>
    /\ pc = "blob"
    /\ tamper = "none"
    /\ \E k \in 1..MaxCut :
         /\ k <= Len(buf)
         /\ buf' = SubSeq(buf, 1, Len(buf) - k)
    /\ tamper' = "truncate"
    /\ UNCHANGED <<pc, supplied, boxes, cursor, limit, yielded, error, reads>>

\* The blob was cut and its header agrees with the shorter length.
TruncateFix ==
    /\ UNCHANGED <<notStream, accessed, modIter, modSize>>
    /\ pc = "blob"
    /\ tamper = "none"
    /\ \E k \in 1..MaxCut :
         /\ k <= Len(buf) - 8
         /\ buf' = Overwrite(SubSeq(buf, 1, Len(buf) - k), 0, to_le_bytes(Len(buf) - k))
    /\ tamper' = "truncfix"
    /\ UNCHANGED <<pc, supplied, boxes, cursor, limit, yielded, error, reads>>

\* One tag declares another size than it has.
PatchSize ==
    /\ UNCHANGED <<notStream, accessed, modIter, modSize>>
    /\ pc = "blob"
    /\ tamper = "none"
    /\ \E i \in 1..Len(boxes), v \in PatchSizes :
         /\ v # byte_size(boxes[i])
         /\ buf' = Overwrite(buf, OrigOff(i) + 4, to_le_bytes(v))
    /\ tamper' = "patchsize"
    /\ UNCHANGED <<pc, supplied, boxes, cursor, limit, yielded, error, reads>>

\* One tag's type code is overwritten with the terminator's.
PatchType ==
    /\ UNCHANGED <<notStream, accessed, modIter, modSize>>
    /\ pc = "blob"
    /\ tamper = "none"
    /\ \E i \in 1..Len(boxes) :
         buf' = Overwrite(buf, OrigOff(i), to_le_bytes(TagTypeEnd))
    /\ tamper' = "patchtype"
    /\ UNCHANGED <<pc, supplied, boxes, cursor, limit, yielded, error, reads>>

\* Root constructor: the region must hold its header and be as long as the
\* header says; the tag stream starts right after the blob header.
Load ==
    /\ UNCHANGED <<notStream, accessed, modIter, modSize>>
    /\ pc = "blob"
    /\ IF Len(buf) < 8
       THEN /\ error' = "StructuralError"
            /\ pc' = "done"
            /\ UNCHANGED <<cursor, limit, reads>>
       ELSE /\ reads' = 8
            /\ IF read_u32(buf, 0) # Len(buf)
               THEN /\ error' = "StructuralError"
                    /\ pc' = "done"
                    /\ UNCHANGED <<cursor, limit>>
               ELSE /\ cursor' = 0
                    /\ limit' = Len(buf) - 8
                    /\ pc' = "walk"
                    /\ error' = error
    /\ UNCHANGED <<supplied, boxes, buf, tamper, yielded>>

\* The region the tag stream walks: the bytes after the blob header.
Region == SubSeq(buf, 9, Len(buf))

ByteAt(b, i) == IF i \in 1..Len(b) THEN b[i] ELSE OutOfBounds

\* Step 2: a decoded size below the 8 header bytes ends the stream.
SizeBelowHeaderNever(size) == FALSE

SizeBelowHeader(size) == size < 8

\* Step 3: the terminator is recognised by its type code.
IsTerminatorWithSize8(type_code, size) == type_code = TagTypeEnd /\ size = 8

IsTerminator(type_code, size) == type_code = TagTypeEnd

\* Step 4: the whole tag lies inside the region.
FitsAlways(at, size, lim) == TRUE

Fits(at, size, lim) == size <= lim - at

\* Step 5: the view's body is bytes[cursor + 8 .. cursor + size].
ViewBodyWithHeader(region, at, size) ==
    [i \in 1..(size - 8) |-> ByteAt(region, at + i)]

ViewBody(region, at, size) ==
    [i \in 1..(size - 8) |-> ByteAt(region, at + 8 + i)]

\* Step 6: cursor += align_up(size, 8).
AdvanceByBody(at, size) == at + (size - 8)

AdvanceByHeader(at, size) == at + 8

Advance(at, size) == at + align_up(size, 8)

\* TagStream::next, one call.
TagStreamNext ==
    /\ UNCHANGED <<notStream, accessed, modIter, modSize>>
    /\ pc = "walk"
    /\ IF limit - cursor < 8
       THEN /\ pc' = "done"
            /\ UNCHANGED <<cursor, yielded, error, reads>>
       ELSE LET type_code == read_u32(Region, cursor)
                size == read_u32(Region, cursor + 4)
            IN  IF SizeBelowHeader(size) \/ IsTerminator(type_code, size)
                THEN /\ pc' = "done"
                     /\ reads' = Max(reads, 8 + cursor + 8)
                     /\ UNCHANGED <<cursor, yielded, error>>
                ELSE IF ~Fits(cursor, size, limit)
                THEN /\ pc' = "done"
                     /\ error' = "StructuralError"
                     /\ reads' = Max(reads, 8 + cursor + 8)
                     /\ UNCHANGED <<cursor, yielded>>
                ELSE /\ yielded' = Append(yielded,
                            [off |-> cursor, type_code |-> type_code, size |-> size,
                             body |-> ViewBody(Region, cursor, size)])
                     /\ cursor' = Advance(cursor, size)
                     /\ reads' = Max(reads, 8 + cursor + size)
                     /\ UNCHANGED <<pc, error>>
    /\ UNCHANGED <<supplied, boxes, buf, tamper, limit>>


----------------------------------------------------------------------------
(* String tags: boot loader name, command line, module command line *)

SizeOfTagTypeId == 4

BOOT_LOADER_NAME_METADATA_SIZE == SizeOfTagType + SizeOfU32
MODULE_METADATA_SIZE == SizeOfTagTypeId + 3 * SizeOfU32

StrKinds == { "BootLoaderName", "CommandLine", "Module" }

MetadataSizeOf(kind) ==
    CASE kind = "BootLoaderName" -> BOOT_LOADER_NAME_METADATA_SIZE
      [] kind = "CommandLine" -> METADATA_SIZE
      [] kind = "Module" -> MODULE_METADATA_SIZE

TagTypeOf(kind) ==
    CASE kind = "BootLoaderName" -> 2
      [] kind = "CommandLine" -> TagTypeCmdline
      [] kind = "Module" -> TagTypeModule

\* core::str::from_utf8: the well-formed byte sequences of UTF-8.
Cont(b) == b >= 128 /\ b <= 191

RECURSIVE from_utf8_ok(_)
from_utf8_ok(s) ==
    IF s = <<>> THEN TRUE
    ELSE LET b1 == s[1]
             n == Len(s)
         IN  IF b1 <= 127 THEN from_utf8_ok(Tail(s))
             ELSE IF b1 >= 194 /\ b1 <= 223
             THEN n >= 2 /\ Cont(s[2]) /\ from_utf8_ok(SubSeq(s, 3, n))
             ELSE IF b1 >= 224 /\ b1 <= 239
             THEN /\ n >= 3
                  /\ Cont(s[2]) /\ Cont(s[3])
                  /\ (b1 = 224 => s[2] >= 160)
                  /\ (b1 = 237 => s[2] <= 159)
                  /\ from_utf8_ok(SubSeq(s, 4, n))
             ELSE IF b1 >= 240 /\ b1 <= 244
             THEN /\ n >= 4
                  /\ Cont(s[2]) /\ Cont(s[3]) /\ Cont(s[4])
                  /\ (b1 = 240 => s[2] >= 144)
                  /\ (b1 = 244 => s[2] <= 143)
                  /\ from_utf8_ok(SubSeq(s, 5, n))
             ELSE FALSE

\* from_utf8(bytes).unwrap(): aborts where from_utf8 returns Err
from_utf8_unwrap(bytes) ==
    IF from_utf8_ok(bytes) THEN [kind |-> "Ok", str |-> bytes]
    ELSE [kind |-> "panic", str |-> <<>>]

from_utf8(bytes) ==
    IF from_utf8_ok(bytes) THEN [kind |-> "Ok", str |-> bytes]
    ELSE [kind |-> "Err", str |-> <<>>]

\* strlen without null byte
strlen_with_nul(size, metadata_size) == size - metadata_size

strlen(size, metadata_size) == size - metadata_size - 1

\* name(), command_line() and cmdline() share one body, each with the
\* METADATA_SIZE of its own module.  &self.string[0] aborts on an empty
\* string field; the slice is the strlen bytes from there.
parse_string(tag, metadata_size) ==
    IF Len(tag.string) = 0 THEN [kind |-> "panic", str |-> <<>>]
    ELSE from_utf8([i \in 1..strlen(tag.size, metadata_size) |-> ByteAt(tag.string, i)])

BootLoaderNameTag_name(tag) == parse_string(tag, BOOT_LOADER_NAME_METADATA_SIZE)
CommandLineTag_command_line(tag) == parse_string(tag, METADATA_SIZE)
ModuleTag_cmdline(tag) == parse_string(tag, MODULE_METADATA_SIZE)

\* Bytes a region may hold in a string field: NUL, 'A', the two bytes of
\* e-acute, and 0xFF.
RawBytes == { 0, 65, 195, 169, 255 }

RECURSIVE SeqsUpTo(_, _)
SeqsUpTo(S, n) ==
    IF n = 0 THEN { <<>> }
    ELSE LET T == SeqsUpTo(S, n - 1) IN T \cup { Append(t, x) : t \in T, x \in S }

StrInit ==
    /\ sPc = "idle"
    /\ sKind = "none"
    /\ sBytes = <<>>
    /\ sTag = [size |-> 0, string |-> <<>>]
    /\ sResult = [kind |-> "none", str |-> <<>>]

\* A producer lays out one string tag: header, (module: mod_start, mod_end),
\* string bytes; size is the length of the whole tag.
RawStringTag ==
    /\ UNCHANGED notStr
    /\ sPc = "idle"
    /\ \E kind \in StrKinds, str \in SeqsUpTo(RawBytes, MaxStrBytes) :
         /\ sKind' = kind
         /\ sBytes' = to_le_bytes(TagTypeOf(kind))
                        \o to_le_bytes(MetadataSizeOf(kind) + Len(str))
                        \o (IF kind = "Module" THEN to_le_bytes(0) \o to_le_bytes(0) ELSE <<>>)
                        \o str
    /\ sPc' = "raw"
    /\ UNCHANGED <<sTag, sResult>>

\* The cast to the tag type: the string field is the size - METADATA_SIZE
\* bytes behind the fixed fields.
CastStringTag ==
    /\ UNCHANGED notStr
    /\ sPc = "raw"
    /\ LET size == read_u32(sBytes, SizeOfTagTypeId)
           dst_len == size - MetadataSizeOf(sKind)
       IN  sTag' = [size |-> size,
                    string |-> [i \in 1..dst_len |-> sBytes[MetadataSizeOf(sKind) + i]]]
    /\ sPc' = "view"
    /\ UNCHANGED <<sKind, sBytes, sResult>>

CallStringAccessor ==
    /\ UNCHANGED notStr
    /\ sPc = "view"
    /\ sResult' = CASE sKind = "BootLoaderName" -> BootLoaderNameTag_name(sTag)
                    [] sKind = "CommandLine" -> CommandLineTag_command_line(sTag)
                    [] sKind = "Module" -> ModuleTag_cmdline(sTag)
    /\ sPc' = "called"
    /\ UNCHANGED <<sKind, sBytes, sTag>>

\* The caller of the tag stream calls command_line() on the command line tag
\* it was just handed, between two calls of next().  The accessor takes
\* &self and returns a value; an abort inside it ends the program.
CallCommandLine ==
    /\ UNCHANGED notStream
    /\ pc = "walk"
    /\ Len(yielded) >= 1
    /\ accessed.idx # Len(yielded)
    /\ LET view == yielded[Len(yielded)]
           result == CommandLineTag_command_line([size |-> view.size, string |-> view.body])
       IN  /\ view.type_code = TagTypeCmdline
           /\ accessed' = [idx |-> Len(yielded), result |-> result]
           /\ pc' = IF result.kind = "panic" THEN "panic" ELSE pc
    /\ UNCHANGED <<supplied, boxes, buf, tamper, cursor, limit, yielded, error, reads,
                   modIter, modSize>>

----------------------------------------------------------------------------
(* EFI memory map tag and EFIMemoryAreaIter *)

SizeOfEFIMemoryDesc == 40
AlignOfEFIMemoryDesc == 8
EFIMemoryDesc_VERSION == 1
EFI_METADATA_SIZE == SizeOfTagTypeId + 3 * SizeOfU32

\* u64 fields: the model's values are below 2^31, a field with any higher
\* bit set reads as U32Sat.
u64_to_le_bytes(n) == to_le_bytes(n) \o <<0, 0, 0, 0>>

read_u64(b, off) ==
    IF b[off + 5] # 0 \/ b[off + 6] # 0 \/ b[off + 7] # 0 \/ b[off + 8] # 0
    THEN U32Sat
    ELSE read_u32(b, off)

\* The 40 bytes of an EFIMemoryDesc: ty: u32, 4 bytes of padding, then
\* phys_start, virt_start, page_count, att: u64.
DescBytes(d) ==
    to_le_bytes(d.ty) \o <<0, 0, 0, 0>> \o u64_to_le_bytes(d.phys_start)
        \o u64_to_le_bytes(d.virt_start) \o u64_to_le_bytes(d.page_count)
        \o u64_to_le_bytes(d.att)

\* .add(off).cast::<EFIMemoryDesc>(): the descriptor whose fields are the
\* bytes at off.
DescAt(memory_map, off) ==
    [ ty |-> read_u32(memory_map, off),
      phys_start |-> read_u64(memory_map, off + 8),
      virt_start |-> read_u64(memory_map, off + 16),
      page_count |-> read_u64(memory_map, off + 24),
      att |-> read_u64(memory_map, off + 32) ]

DescInputs ==
    { [ty |-> 7, phys_start |-> 4096, virt_start |-> 4096, page_count |-> 1, att |-> 0],
      [ty |-> 2, phys_start |-> 8192, virt_start |-> 8192, page_count |-> 3, att |-> 0],
      [ty |-> 3, phys_start |-> 0, virt_start |-> 0, page_count |-> 1, att |-> 15] }

\* What a producer puts between two descriptors.
PadFill == { 0, 170 }

RECURSIVE PackDescs(_, _, _)
PackDescs(descs, pad, fill) ==
    IF descs = <<>> THEN <<>>
    ELSE DescBytes(Head(descs)) \o [i \in 1..pad |-> fill]
            \o PackDescs(Tail(descs), pad, fill)

\* EFIMemoryMapTag::new_from_map: its assertions, and the tag it builds from
\* desc_size, desc_version and the map when they hold.
\* ptr.align_offset(align)
align_offset(ptr, align) == (align - (ptr % align)) % align

new_from_map_asserts(desc_size, efi_mmap, ptr) ==
    /\ desc_size > 0
    /\ Len(efi_mmap) % desc_size = 0
    /\ align_offset(ptr, AlignOfEFIMemoryDesc) = 0

new_from_map(desc_size, desc_version, efi_mmap) ==
    [ size |-> EFI_METADATA_SIZE + Len(efi_mmap),
      desc_size |-> desc_size,
      desc_version |-> desc_version,
      memory_map |-> efi_mmap ]

\* self.i * self.mmap_tag.desc_size
DescOffsetNominal(i, desc_size) == i * SizeOfEFIMemoryDesc

DescOffset(i, desc_size) == i * desc_size

EfiInit ==
    /\ ePc = "idle"
    /\ eDescs = <<>>
    /\ eTag = [size |-> EFI_METADATA_SIZE, desc_size |-> SizeOfEFIMemoryDesc,
               desc_version |-> EFIMemoryDesc_VERSION, memory_map |-> <<>>]
    /\ eI = 0
    /\ eEntries = 0
    /\ eOut = <<>>
    /\ eBy = "none"
    /\ eLen = [called |-> FALSE, i |-> 0, value |-> 0]

\* The address of the bytes of a Vec<u8>: a vector of capacity 0 has not
\* allocated and holds the dangling pointer of u8, whose address is the
\* alignment of u8; otherwise the address of a heap block.
DanglingU8 == 1
HeapBlock == 4096
Vec_as_ptr(capacity) == IF capacity = 0 THEN DanglingU8 ELSE HeapBlock

\* Addresses of the map a producer hands to new_from_map.
MapAddrs == { 4096, 4097 }

\* mem::size_of::<u64>() - size_base % mem::size_of::<u64>()
desc_size_diff(size_base) == 8 - (size_base % 8)

\* EFIMemoryMapTag::new_from_descs
EfiNewFromDescs ==
    /\ UNCHANGED notEfi
    /\ ePc = "idle"
    /\ \E descs \in SeqsUpTo(DescInputs, MaxDescs) :
         LET size_base == SizeOfEFIMemoryDesc
             diff == desc_size_diff(size_base)
             desc_size == size_base + diff
             efi_mmap == PackDescs(descs, diff, 0)
             ptr == Vec_as_ptr(Len(descs) * desc_size)
         IN  /\ eDescs' = descs
             /\ IF ~(desc_size >= size_base)
                   \/ ~new_from_map_asserts(desc_size, efi_mmap, ptr)
                THEN /\ ePc' = "panic"
                     /\ UNCHANGED eTag
                ELSE /\ ePc' = "tag"
                     /\ eTag' = new_from_map(desc_size, EFIMemoryDesc_VERSION, efi_mmap)
    /\ eBy' = "new_from_descs"
    /\ UNCHANGED <<eI, eEntries, eOut, eLen>>

\* A producer packs n descriptors at desc_size = 40 + k byte intervals and
\* builds the tag with new_from_map.
EfiNewFromMap ==
    /\ UNCHANGED notEfi
    /\ ePc = "idle"
    /\ \E descs \in SeqsUpTo(DescInputs, MaxDescs), k \in 0..MaxPad, fill \in PadFill,
          version \in {EFIMemoryDesc_VERSION, 2}, ptr \in MapAddrs :
         LET desc_size == SizeOfEFIMemoryDesc + k
             efi_mmap == PackDescs(descs, k, fill)
         IN  /\ eDescs' = descs
             /\ IF ~new_from_map_asserts(desc_size, efi_mmap, ptr)
                THEN /\ ePc' = "panic"
                     /\ UNCHANGED eTag
                ELSE /\ ePc' = "tag"
                     /\ eTag' = new_from_map(desc_size, version, efi_mmap)
    /\ eBy' = "new_from_map"
    /\ UNCHANGED <<eI, eEntries, eOut, eLen>>

\* EFIMemoryMapTag::dst_size: the length of memory_map
EFIMemoryMapTag_dst_size(size) == size - EFI_METADATA_SIZE

\* desc_size values and bytes behind the last descriptor of a tag found in
\* a region.
RawDescSizes == { 0, 8, 40, 48 }
RawExtra == { 0, 4 }

\* An EFI memory map tag found in a region, cast to EFIMemoryMapTag: the
\* descriptors lie 40 or 48 bytes apart, desc_size is what the tag says.
EfiRawTag ==
    /\ UNCHANGED notEfi
    /\ ePc = "idle"
    /\ \E descs \in SeqsUpTo(DescInputs, MaxDescs), desc_size \in RawDescSizes,
          extra \in RawExtra :
         LET body == PackDescs(descs, Max(desc_size, SizeOfEFIMemoryDesc)
                                         - SizeOfEFIMemoryDesc, 0) \o Zeros(extra)
             size == EFI_METADATA_SIZE + Len(body)
         IN  /\ eDescs' = descs
             /\ eTag' = [ size |-> size,
                          desc_size |-> desc_size,
                          desc_version |-> EFIMemoryDesc_VERSION,
                          memory_map |-> SubSeq(body, 1, EFIMemoryMapTag_dst_size(size)) ]
    /\ ePc' = "tag"
    /\ eBy' = "region"
    /\ UNCHANGED <<eI, eEntries, eOut, eLen>>

\* memory_areas() and EFIMemoryAreaIter::new
EfiMemoryAreas ==
    /\ UNCHANGED notEfi
    /\ ePc = "tag"
    /\ IF eTag.desc_version # EFIMemoryDesc_VERSION
       THEN /\ ePc' = "panic"
            /\ UNCHANGED <<eI, eEntries>>
       ELSE IF eTag.desc_size = 0
       THEN /\ ePc' = "panic"
            /\ UNCHANGED <<eI, eEntries>>
       ELSE IF Len(eTag.memory_map) % eTag.desc_size # 0
       THEN /\ ePc' = "panic"
            /\ UNCHANGED <<eI, eEntries>>
       ELSE /\ ePc' = "iter"
            /\ eI' = 0
            /\ eEntries' = Len(eTag.memory_map) \div eTag.desc_size
    /\ UNCHANGED <<eDescs, eTag, eOut, eBy, eLen>>

\* EFIMemoryAreaIter::next.  The reference is formed at memory_map + i *
\* desc_size; memory_map itself is 8-aligned, so the reference is aligned
\* exactly when that offset is a multiple of the descriptor's alignment.
\* A misaligned reference is undefined behaviour: the build either reads the
\* bytes at the offset or faults.
\* A reference that reaches past the end of memory_map is undefined behaviour
\* as well: the build reads whatever lies behind the map, or faults.
WildDesc ==
    [ ty |-> OutOfBounds, phys_start |-> OutOfBounds, virt_start |-> OutOfBounds,
      page_count |-> OutOfBounds, att |-> OutOfBounds ]

DescInside(memory_map, off) == off + SizeOfEFIMemoryDesc <= Len(memory_map)

EfiNext ==
    /\ UNCHANGED notEfi
    /\ ePc = "iter"
    /\ IF eI >= eEntries
       THEN /\ ePc' = "finished"
            /\ UNCHANGED <<eI, eOut>>
       ELSE LET off == DescOffset(eI, eTag.desc_size)
                desc == IF DescInside(eTag.memory_map, off)
                        THEN DescAt(eTag.memory_map, off)
                        ELSE WildDesc
            IN  \/ /\ eOut' = Append(eOut, [off |-> off, desc |-> desc])
                   /\ eI' = eI + 1
                   /\ ePc' = ePc
                \/ /\ \/ off % AlignOfEFIMemoryDesc # 0
                      \/ ~DescInside(eTag.memory_map, off)
                   /\ ePc' = "fault"
                   /\ UNCHANGED <<eI, eOut>>
    /\ UNCHANGED <<eDescs, eTag, eEntries, eBy, eLen>>

\* ExactSizeIterator::len
EFIMemoryAreaIter_len(entries) == entries

EfiLen ==
    /\ UNCHANGED notEfi
    /\ ePc \in {"iter", "finished"}
    /\ eLen' = [called |-> TRUE, i |-> eI, value |-> EFIMemoryAreaIter_len(eEntries)]
    /\ UNCHANGED <<ePc, eDescs, eTag, eI, eEntries, eOut, eBy>>


----------------------------------------------------------------------------
(* Framebuffer tag: FramebufferTag::new, FramebufferType::to_bytes, buffer_type *)

TagTypeFramebuffer == 8

\* Offsets in the packed FramebufferTag: typ, size, address: u64, pitch,
\* width, height: u32, bpp: u8, type_no: u8, _reserved: u16, buffer.
FB_TYPE_NO_OFFSET == SizeOfTagType + SizeOfU32 + 8 + 3 * SizeOfU32 + 1
FB_BUFFER_OFFSET == FB_TYPE_NO_OFFSET + 1 + 2

SizeOfFramebufferColor == 3
SizeOfFramebufferField == 2

NoResult == [kind |-> "none", palette |-> <<>>, rgb |-> <<>>, code |-> 0]

Indexed(palette) == [kind |-> "Indexed", palette |-> palette, rgb |-> <<>>, code |-> 0]
RGB(red, green, blue) ==
    [kind |-> "RGB", palette |-> <<>>, rgb |-> <<red, green, blue>>, code |-> 0]
Text == [kind |-> "Text", palette |-> <<>>, rgb |-> <<>>, code |-> 0]

\* struct_as_bytes of a FramebufferColor and of a FramebufferField
ColorBytes(c) == <<c.red, c.green, c.blue>>
FieldBytes(f) == <<f.position, f.size>>

RECURSIVE PaletteBytes(_)
PaletteBytes(palette) ==
    IF palette = <<>> THEN <<>>
    ELSE ColorBytes(Head(palette)) \o PaletteBytes(Tail(palette))

\* FramebufferType::to_bytes
to_bytes(t) ==
    CASE t.kind = "Indexed" ->
            <<0>> \o <<0, 0>> \o to_le_bytes(Len(t.palette)) \o PaletteBytes(t.palette)
      [] t.kind = "RGB" ->
            <<1>> \o <<0, 0>> \o FieldBytes(t.rgb[1]) \o FieldBytes(t.rgb[2])
                \o FieldBytes(t.rgb[3])
      [] t.kind = "Text" -> <<2>> \o <<0, 0>>

\* FramebufferTag::new: the content handed to boxed_dst_tag
FramebufferTag_new(address, pitch, width, height, bpp, buffer_type) ==
    LET bytes == u64_to_le_bytes(address) \o to_le_bytes(pitch) \o to_le_bytes(width)
                    \o to_le_bytes(height) \o <<bpp>> \o to_bytes(buffer_type)
    IN  boxed_dst_tag(TagTypeFramebuffer, METADATA_SIZE + Len(bytes), bytes)

\* Reader over the buffer field: read_u8 and read_u32 (little-endian) at the
\* reader's offset.
Reader_read_u8(buffer, off) == ByteAt(buffer, off + 1)

Reader_read_u32(buffer, off) ==
    read_u32([i \in 1..4 |-> ByteAt(buffer, off + i)], 0)

\* Element i (from 0) of the slice of FramebufferColor at the reader's
\* address, taken with a stride of 4 bytes.
FramebufferColorAtPadded(buffer, off, i) ==
    [ red |-> ByteAt(buffer, off + 4 * i + 1),
      green |-> ByteAt(buffer, off + 4 * i + 2),
      blue |-> ByteAt(buffer, off + 4 * i + 3) ]

FramebufferColorAt(buffer, off, i) ==
    [ red |-> ByteAt(buffer, off + SizeOfFramebufferColor * i + 1),
      green |-> ByteAt(buffer, off + SizeOfFramebufferColor * i + 2),
      blue |-> ByteAt(buffer, off + SizeOfFramebufferColor * i + 3) ]

\* FramebufferTag::buffer_type: the value returned and the offset the reader
\* has reached.
buffer_type(tag) ==
    CASE tag.type_no = 0 ->
            LET num_colors == Reader_read_u32(tag.buffer, 0)
            IN  [ value |-> Indexed([i \in 1..num_colors |->
                                        FramebufferColorAt(tag.buffer, 4, i - 1)]),
                  off |-> 4 ]
      [] tag.type_no = 1 ->
            [ value |-> RGB([position |-> Reader_read_u8(tag.buffer, 0),
                             size |-> Reader_read_u8(tag.buffer, 1)],
                            [position |-> Reader_read_u8(tag.buffer, 2),
                             size |-> Reader_read_u8(tag.buffer, 3)],
                            [position |-> Reader_read_u8(tag.buffer, 4),
                             size |-> Reader_read_u8(tag.buffer, 5)]),
              off |-> 6 ]
      [] tag.type_no = 2 -> [ value |-> Text, off |-> 0 ]
      [] OTHER -> \* panic!("Unknown framebuffer type: {}", no)
            [ value |-> [kind |-> "panic", palette |-> <<>>, rgb |-> <<>>,
                         code |-> tag.type_no],
              off |-> 0 ]

Colors ==
    { [red |-> 255, green |-> 0, blue |-> 0],
      [red |-> 0, green |-> 255, blue |-> 0],
      [red |-> 1, green |-> 2, blue |-> 3] }

Fields == { [position |-> 16, size |-> 8], [position |-> 8, size |-> 8],
            [position |-> 0, size |-> 5] }

FramebufferTypes ==
    { Indexed(p) : p \in SeqsUpTo(Colors, MaxColors) }
        \cup { RGB(r, g, b) : r \in Fields, g \in Fields, b \in Fields }
        \cup { Text }

\* Discriminant bytes and buffer fields a producer may lay out: a count and
\* that many colours (with or without bytes behind them), three fields, or
\* any discriminant byte before any of these.
\* A colour count of 2 ahead of one colour, and of 1 ahead of none.
ShortPalettes == { <<2, 0, 0, 0, 255, 0, 0>>, <<1, 0, 0, 0>> }

RawPalettes ==
    { to_le_bytes(Len(p)) \o PaletteBytes(p) : p \in SeqsUpTo(Colors, MaxColors) }
        \cup { <<2, 0, 0, 0, 9, 9, 9, 0, 7, 7, 7, 0>> }
        \cup ShortPalettes
RawFields == { <<16, 8, 8, 8, 0, 8>> }
UnknownTypeNos == { 3, 255 }
RawTags ==
    { <<0, b>> : b \in RawPalettes }
        \cup { <<1, b>> : b \in RawFields }
        \cup { <<no, b>> : no \in {2} \cup UnknownTypeNos, b \in {<<>>} \cup RawFields }

FbInit ==
    /\ fPc = "idle"
    /\ fBuilt = NoResult
    /\ fBytes = <<>>
    /\ fTag = [size |-> 0, type_no |-> 0, buffer |-> <<>>]
    /\ fResult = [value |-> NoResult, off |-> 0]

FbNew ==
    /\ UNCHANGED notFb
    /\ fPc = "idle"
    /\ \E t \in FramebufferTypes, bpp \in {16, 32} :
         /\ fBuilt' = t
         /\ fBytes' = struct_as_bytes(FramebufferTag_new(4096, 2, 3, 4, bpp, t))
    /\ fPc' = "raw"
    /\ UNCHANGED <<fTag, fResult>>

\* A producer lays out a framebuffer tag with any discriminant byte.
FbRaw ==
    /\ UNCHANGED notFb
    /\ fPc = "idle"
    /\ \E raw \in RawTags :
         LET no == raw[1]
             buffer == raw[2]
         IN
         fBytes' = to_le_bytes(TagTypeFramebuffer)
                     \o to_le_bytes(FB_BUFFER_OFFSET + Len(buffer))
                     \o u64_to_le_bytes(4096) \o to_le_bytes(2) \o to_le_bytes(3)
                     \o to_le_bytes(4) \o <<32>> \o <<no>> \o <<0, 0>> \o buffer
    /\ fPc' = "raw"
    /\ UNCHANGED <<fBuilt, fTag, fResult>>

\* The cast to FramebufferTag: buffer is the bytes behind the fixed fields.
FbCast ==
    /\ UNCHANGED notFb
    /\ fPc = "raw"
    /\ LET size == read_u32(fBytes, SizeOfTagType)
       IN  fTag' = [size |-> size,
                    type_no |-> fBytes[FB_TYPE_NO_OFFSET + 1],
                    buffer |-> [i \in 1..(size - FB_BUFFER_OFFSET) |->
                                   fBytes[FB_BUFFER_OFFSET + i]]]
    /\ fPc' = "view"
    /\ UNCHANGED <<fBuilt, fBytes, fResult>>

FbBufferType ==
    /\ UNCHANGED notFb
    /\ fPc = "view"
    /\ fResult' = buffer_type(fTag)
    /\ fPc' = IF buffer_type(fTag).value.kind = "panic" THEN "panic" ELSE "called"
    /\ UNCHANGED <<fBuilt, fBytes, fTag>>

----------------------------------------------------------------------------
(* ELF sections tag: sections(), ElfSectionIter, ElfSection accessors *)

\* Offset of `sections` in the packed ElfSectionsTag: typ, size,
\* number_of_sections, entry_size, shndx.
ELF_SECTIONS_OFFSET == SizeOfTagType + 4 * SizeOfU32

SizeOfElfSectionInner32 == 40
SizeOfElfSectionInner64 == 64

U32(n) == to_le_bytes(n)
U64(n) == u64_to_le_bytes(n)

\* ElfSectionInner32: name_index, typ, flags, addr, offset, size, link, info,
\* addralign, entry_size, all u32.
Inner32Bytes(e) ==
    U32(e.name_index) \o e.typ \o U32(e.flags) \o SubSeq(e.addr, 1, 4) \o U32(0)
        \o SubSeq(e.size, 1, 4) \o U32(0) \o U32(0) \o U32(e.addralign) \o U32(0)

\* ElfSectionInner64: name_index, typ: u32, flags, addr, offset, size: u64,
\* link, info: u32, addralign, entry_size: u64.
Inner64Bytes(e) ==
    U32(e.name_index) \o e.typ \o U64(e.flags) \o e.addr \o U64(0)
        \o e.size \o U32(0) \o U32(0) \o U64(e.addralign) \o U64(0)

BytesAt(b, off, n) == [i \in 1..n |-> ByteAt(b, off + i)]

\* ElfSection::get: which layout the entry is read as.
get(entry_size) ==
    CASE entry_size = 40 -> "ElfSectionInner32"
      [] entry_size = 64 -> "ElfSectionInner64"
      [] OTHER -> "panic"

\* The fields behind the ElfSectionInner trait, widened to u64 by .into().
Inner_name_index(sections, inner, layout) == read_u32(BytesAt(sections, inner, 4), 0)
Inner_typ(sections, inner, layout) == BytesAt(sections, inner + 4, 4)
Inner_flags(sections, inner, layout) ==
    IF layout = "ElfSectionInner32" THEN BytesAt(sections, inner + 8, 4) \o Zeros(4)
    ELSE BytesAt(sections, inner + 8, 8)
Inner_addr(sections, inner, layout) ==
    IF layout = "ElfSectionInner32" THEN BytesAt(sections, inner + 12, 4) \o Zeros(4)
    ELSE BytesAt(sections, inner + 16, 8)
Inner_size(sections, inner, layout) ==
    IF layout = "ElfSectionInner32" THEN BytesAt(sections, inner + 20, 4) \o Zeros(4)
    ELSE BytesAt(sections, inner + 32, 8)
Inner_addralign(sections, inner, layout) ==
    IF layout = "ElfSectionInner32" THEN BytesAt(sections, inner + 32, 4) \o Zeros(4)
    ELSE BytesAt(sections, inner + 48, 8)

\* ElfSection::section_type on the raw type (4 bytes, little-endian).
section_type_of(typ) ==
    IF typ[4] >= 128 THEN "Unused"
    ELSE LET v == read_u32(typ, 0)
         IN  CASE v = 0 -> "Unused"
               [] v = 1 -> "ProgramSection"
               [] v = 2 -> "LinkerSymbolTable"
               [] v = 3 -> "StringTable"
               [] v = 4 -> "RelaRelocation"
               [] v = 5 -> "SymbolHashTable"
               [] v = 6 -> "DynamicLinkingTable"
               [] v = 7 -> "Note"
               [] v = 8 -> "Uninitialized"
               [] v = 9 -> "RelRelocation"
               [] v = 10 -> "Reserved"
               [] v = 11 -> "DynamicLoaderSymbolTable"
               [] v >= 96 * 16777216 /\ v <= 111 * 16777216 + 16777215 ->
                     "EnvironmentSpecific"
               [] v >= 112 * 16777216 /\ v <= 127 * 16777216 + 16777215 ->
                     "ProcessorSpecific"
               [] OTHER -> "Unused"

\* The string table the section names live in, as found in memory at
\* StrTabAddr + offset: "\0a\0".
StrTabAddr == 8192
StrTab == <<0, 97, 0>>

MemAt(addr, offset) ==
    IF addr - (StrTabAddr + offset) \in 0..(Len(StrTab) - 1)
    THEN StrTab[addr - (StrTabAddr + offset) + 1]
    ELSE OutOfBounds

\* ElfSection::string_table: the addr field of the element at string_section,
\* plus offset.
string_table(sections, string_section, layout, offset) ==
    SubSeq(AddBytes(Inner_addr(sections, string_section, layout), U64(offset)), 1, 8)

RECURSIVE CStrAt(_, _, _)
CStrAt(addr, offset, fuel) ==
    IF fuel = 0 \/ MemAt(addr, offset) = 0 \/ MemAt(addr, offset) = OutOfBounds
    THEN <<>>
    ELSE <<MemAt(addr, offset)>> \o CStrAt(addr + 1, offset, fuel - 1)

\* ElfSection::name: the bytes from string_table() + name_index up to the
\* NUL, decoded.  A pointer outside the string table is a wild read.
ElfSection_name(sections, inner, string_section, layout, offset) ==
    LET table == string_table(sections, string_section, layout, offset)
        name_ptr == read_u32(table, 0) + Inner_name_index(sections, inner, layout)
    IN  IF ~IsZero(HighHalf(table)) \/ table[4] >= 128
            \/ MemAt(name_ptr, offset) = OutOfBounds
        THEN [kind |-> "wild", str |-> <<>>]
        ELSE from_utf8(CStrAt(name_ptr, offset, Len(StrTab)))

\* Section header entries a producer may write.
ElfEntries ==
    { [name_index |-> 1, typ |-> U32(1), flags |-> 2, addr |-> U64(4096),
       size |-> U64(32), addralign |-> 16],
      [name_index |-> 0, typ |-> U32(3), flags |-> 0, addr |-> U64(StrTabAddr),
       size |-> U64(3), addralign |-> 1],
      [name_index |-> 0, typ |-> U32(0), flags |-> 0, addr |-> U64(0),
       size |-> U64(0), addralign |-> 0],
      [name_index |-> 1, typ |-> U32(1), flags |-> 3,
       addr |-> <<0, 240, 255, 255, 255, 255, 255, 255>>,
       size |-> <<0, 16, 0, 0, 0, 0, 0, 0>>, addralign |-> 1],
      \* raw types 12, 0x6000_0000, 0x7FFF_FFFF and 0x8000_0000
      [name_index |-> 1, typ |-> U32(12), flags |-> 0, addr |-> U64(4096),
       size |-> U64(8), addralign |-> 1],
      [name_index |-> 1, typ |-> <<0, 0, 0, 96>>, flags |-> 0, addr |-> U64(4096),
       size |-> U64(8), addralign |-> 1],
      [name_index |-> 1, typ |-> <<255, 255, 255, 127>>, flags |-> 0, addr |-> U64(4096),
       size |-> U64(8), addralign |-> 1],
      [name_index |-> 1, typ |-> <<0, 0, 0, 128>>, flags |-> 0, addr |-> U64(4096),
       size |-> U64(8), addralign |-> 1] }

EntrySizes == { 40, 64, 48 }
Offsets == { 0, 16 }

\* shndx values: in the table, or with shndx * 64 = 2^32.
BigShndx == 4 * 16777216

\* By how much number_of_sections exceeds the entries the tag holds.
SectionExcess == { 0, 1 }

RECURSIVE PackEntries(_, _)
PackEntries(entries, entry_size) ==
    IF entries = <<>> THEN <<>>
    ELSE LET e == Head(entries)
             raw == IF entry_size = SizeOfElfSectionInner64 THEN Inner64Bytes(e)
                    ELSE Inner32Bytes(e)
         IN  raw \o Zeros(entry_size - Len(raw)) \o PackEntries(Tail(entries), entry_size)

ElfInit ==
    /\ xPc = "idle"
    /\ xMsg = "none"
    /\ xEntries = <<>>
    /\ xTag = [size |-> ELF_SECTIONS_OFFSET, number_of_sections |-> 0, entry_size |-> 0,
               shndx |-> 0, sections |-> <<>>]
    /\ xOffset = 0
    /\ xIter = [current_section |-> 0, remaining_sections |-> 0, entry_size |-> 0,
                string_section |-> Zeros(8)]
    /\ xOut = <<>>
    /\ xAcc = [idx |-> 0]
    /\ xEnd = [idx |-> 0, kind |-> "none", value |-> Zeros(8)]

\* A producer lays out an ELF sections tag; the region is cast to
\* ElfSectionsTag, whose sections field is the size - 20 bytes behind shndx.
ElfRawTag ==
    /\ UNCHANGED notElf
    /\ xPc = "idle"
    /\ \E entries \in SeqsUpTo(ElfEntries, MaxSections), es \in EntrySizes,
          shndx \in {0, 1, BigShndx}, excess \in SectionExcess :
         LET sections == PackEntries(entries, es)
             bytes == U32(TagTypeElfSections) \o U32(ELF_SECTIONS_OFFSET + Len(sections))
                        \o U32(Len(entries) + excess) \o U32(es) \o U32(shndx)
                        \o sections
             size == read_u32(bytes, SizeOfTagType)
         IN  /\ (shndx <= Len(entries) \/ (shndx = BigShndx /\ Len(entries) >= 1))
             /\ xEntries' = entries
             /\ xTag' = [size |-> size,
                         number_of_sections |-> read_u32(bytes, 8),
                         entry_size |-> read_u32(bytes, 12),
                         shndx |-> read_u32(bytes, 16),
                         sections |-> BytesAt(bytes, ELF_SECTIONS_OFFSET,
                                              size - ELF_SECTIONS_OFFSET)]
    /\ xPc' = "tag"
    /\ UNCHANGED <<xMsg, xOffset, xIter, xOut, xAcc, xEnd>>

\* self.shndx * self.entry_size in u32
string_section_offset_exact(shndx, entry_size) == MulBytes(U32(shndx), U32(entry_size))

string_section_offset(shndx, entry_size) ==
    LowHalf(MulBytes(U32(shndx), U32(entry_size))) \o Zeros(4)

\* ElfSectionsTag::sections(offset).  A u32 product that does not fit aborts
\* in a build with overflow checks and wraps in one without;
\* first_section() indexes sections[0].
ElfSections ==
    /\ UNCHANGED notElf
    /\ xPc = "tag"
    /\ \E offset \in Offsets :
         LET exact == string_section_offset_exact(xTag.shndx, xTag.entry_size)
         IN  /\ xOffset' = offset
             /\ \/ /\ ~IsZero(HighHalf(exact))
                   /\ xPc' = "panic"
                   /\ xMsg' = "attempt to multiply with overflow"
                   /\ UNCHANGED xIter
                \/ /\ Len(xTag.sections) = 0
                   /\ xPc' = "panic"
                   /\ xMsg' = "index out of bounds"
                   /\ UNCHANGED xIter
                \/ /\ Len(xTag.sections) > 0
                   /\ xPc' = "iter"
                   /\ xMsg' = xMsg
                   /\ xIter' = [current_section |-> 0,
                                remaining_sections |-> xTag.number_of_sections,
                                entry_size |-> xTag.entry_size,
                                string_section |->
                                    string_section_offset(xTag.shndx, xTag.entry_size)]
    /\ UNCHANGED <<xEntries, xTag, xOut, xAcc, xEnd>>

\* next() without the test of the section type: every entry is returned.
IterNextUnfiltered(sections, cur, rem, entry_size) ==
    IF rem = 0 THEN [kind |-> "None", inner |-> 0, cur |-> cur, rem |-> rem]
    ELSE IF get(entry_size) = "panic"
    THEN [kind |-> "panic", inner |-> cur, cur |-> cur + entry_size, rem |-> rem - 1]
    ELSE [kind |-> "Some", inner |-> cur, cur |-> cur + entry_size, rem |-> rem - 1]

\* The entry at cur lies inside the sections bytes.  A reference to an entry
\* outside them is undefined behaviour: a wild read.
EntryInside(sections, cur, entry_size) == cur + entry_size <= Len(sections)

\* The loop of ElfSectionIter::next from (current_section, remaining_sections).
RECURSIVE IterNext(_, _, _, _)
IterNext(sections, cur, rem, entry_size) ==
    IF rem = 0 THEN [kind |-> "None", inner |-> 0, cur |-> cur, rem |-> rem]
    ELSE IF get(entry_size) = "panic"
    THEN [kind |-> "panic", inner |-> cur, cur |-> cur + entry_size, rem |-> rem - 1]
    ELSE IF ~EntryInside(sections, cur, entry_size)
    THEN [kind |-> "wild", inner |-> cur, cur |-> cur + entry_size, rem |-> rem - 1]
    ELSE IF section_type_of(Inner_typ(sections, cur, get(entry_size))) # "Unused"
    THEN [kind |-> "Some", inner |-> cur, cur |-> cur + entry_size, rem |-> rem - 1]
    ELSE IterNext(sections, cur + entry_size, rem - 1, entry_size)

\* One call of next().  On a wild read the build faults, or takes what it
\* read for a section, or takes it and all that follows for unused entries.
ElfNext ==
    /\ UNCHANGED notElf
    /\ xPc \in {"iter", "finished"}
    /\ LET r == IterNext(xTag.sections, xIter.current_section, xIter.remaining_sections,
                         xIter.entry_size)
           stepped == [xIter EXCEPT !.current_section = r.cur,
                                    !.remaining_sections = r.rem]
           section == [inner |-> r.inner, entry_size |-> xIter.entry_size,
                       string_section |-> xIter.string_section, offset |-> xOffset]
       IN  CASE r.kind = "None" ->
                 /\ xPc' = "finished"
                 /\ xIter' = stepped
                 /\ UNCHANGED <<xMsg, xOut>>
            [] r.kind = "panic" ->
                 /\ xPc' = "panic"
                 /\ xMsg' = "Unexpected entry size"
                 /\ xIter' = stepped
                 /\ UNCHANGED xOut
            [] r.kind = "Some" ->
                 /\ xOut' = Append(xOut, section)
                 /\ xIter' = stepped
                 /\ UNCHANGED <<xPc, xMsg>>
            [] r.kind = "wild" ->
                 \/ /\ xPc' = "fault"
                    /\ xIter' = stepped
                    /\ UNCHANGED <<xMsg, xOut>>
                 \/ /\ xOut' = Append(xOut, section)
                    /\ xIter' = stepped
                    /\ UNCHANGED <<xPc, xMsg>>
                 \/ /\ xPc' = "finished"
                    /\ xIter' = [xIter EXCEPT
                          !.current_section = r.cur + r.rem * xIter.entry_size,
                          !.remaining_sections = 0]
                    /\ UNCHANGED <<xMsg, xOut>>
    /\ UNCHANGED <<xEntries, xTag, xOffset, xAcc, xEnd>>

\* The element string_section points at lies inside the sections bytes;
\* outside, string_table() and name() are wild reads.
StringSectionInside(sections, s) ==
    /\ IsZero(HighHalf(s.string_section))
    /\ s.string_section[4] < 128
    /\ read_u32(s.string_section, 0) <= Len(sections) - s.entry_size

\* The accessors of the section next() returned last.
ElfAccess ==
    /\ UNCHANGED notElf
    /\ xPc = "iter"
    /\ Len(xOut) >= 1
    /\ xAcc.idx # Len(xOut)
    /\ EntryInside(xTag.sections, xOut[Len(xOut)].inner, xOut[Len(xOut)].entry_size)
    /\ LET s == xOut[Len(xOut)]
           layout == get(s.entry_size)
           b == xTag.sections
       IN  IF layout = "panic"
           THEN /\ xPc' = "panic"
                /\ xMsg' = "Unexpected entry size"
                /\ UNCHANGED xAcc
           ELSE /\ xAcc' = [idx |-> Len(xOut),
                            section_type |-> section_type_of(Inner_typ(b, s.inner, layout)),
                            section_type_raw |-> Inner_typ(b, s.inner, layout),
                            start_address |-> Inner_addr(b, s.inner, layout),
                            size |-> Inner_size(b, s.inner, layout),
                            addralign |-> Inner_addralign(b, s.inner, layout),
                            flags |-> Inner_flags(b, s.inner, layout),
                            string_table |->
                                IF StringSectionInside(b, s)
                                THEN string_table(b, read_u32(s.string_section, 0),
                                                  layout, s.offset)
                                ELSE <<>>,
                            name |->
                                IF StringSectionInside(b, s)
                                THEN ElfSection_name(b, s.inner,
                                        read_u32(s.string_section, 0), layout, s.offset)
                                ELSE [kind |-> "wild", str |-> <<>>]]
                /\ UNCHANGED <<xPc, xMsg>>
    /\ UNCHANGED <<xEntries, xTag, xOffset, xIter, xOut, xEnd>>

\* ElfSection::end_address of the section next() returned last:
\* addr() + size() in u64.  A sum that does not fit aborts in a build with
\* overflow checks and wraps in one without.
ElfEndAddress ==
    /\ UNCHANGED notElf
    /\ xPc = "iter"
    /\ Len(xOut) >= 1
    /\ xEnd.idx # Len(xOut)
    /\ EntryInside(xTag.sections, xOut[Len(xOut)].inner, xOut[Len(xOut)].entry_size)
    /\ LET s == xOut[Len(xOut)]
           layout == get(s.entry_size)
           sum == AddBytes(Inner_addr(xTag.sections, s.inner, layout),
                           Inner_size(xTag.sections, s.inner, layout))
       IN  \/ /\ sum[9] # 0
              /\ xPc' = "panic"
              /\ xMsg' = "attempt to add with overflow"
              /\ UNCHANGED xEnd
           \/ /\ xEnd' = [idx |-> Len(xOut), kind |-> "Ok", value |-> SubSeq(sum, 1, 8)]
              /\ UNCHANGED <<xPc, xMsg>>
    /\ UNCHANGED <<xEntries, xTag, xOffset, xIter, xOut, xAcc>>

----------------------------------------------------------------------------
(* Legacy memory map tag: dst_size, memory_areas, all_memory_areas_mut *)

MMAP_METADATA_SIZE == SizeOfTagTypeId + 3 * SizeOfU32
SizeOfMemoryArea == 24
TagTypeMmap == 6

\* MemoryArea: base_addr: u64, length: u64, typ: u32, _reserved: u32
AreaBytes(a) == a.base_addr \o a.length \o U32(a.typ) \o U32(0)

AreaAt(b, off) ==
    [ base_addr |-> BytesAt(b, off, 8), length |-> BytesAt(b, off + 8, 8),
      typ |-> read_u32(b, off + 16) ]

AreaInputs ==
    { [base_addr |-> U64(0), length |-> U64(654336), typ |-> 1],
      [base_addr |-> U64(1048576), length |-> U64(4096), typ |-> 3],
      [base_addr |-> <<0, 240, 255, 255, 255, 255, 255, 255>>,
       length |-> <<0, 16, 0, 0, 0, 0, 0, 0>>, typ |-> 1] }

MmapEntrySizes == { 24, 32 }
MmapTrailing == { 0, 4 }

RECURSIVE PackAreas(_, _)
PackAreas(areas, entry_size) ==
    IF areas = <<>> THEN <<>>
    ELSE AreaBytes(Head(areas)) \o Zeros(entry_size - SizeOfMemoryArea)
            \o PackAreas(Tail(areas), entry_size)

\* MemoryMapTag::dst_size: the number of MemoryArea elements of the areas
\* field, or the assertion that fails.
MemoryMapTag_dst_size(size) ==
    IF size < MMAP_METADATA_SIZE
    THEN [kind |-> "panic", n |-> 0]
    ELSE IF (size - MMAP_METADATA_SIZE) % SizeOfMemoryArea # 0
    THEN [kind |-> "panic", n |-> 0]
    ELSE [kind |-> "Ok", n |-> (size - MMAP_METADATA_SIZE) \div SizeOfMemoryArea]

\* The receivers of the two accessors.
memory_areas_receiver == "&self"

all_memory_areas_mut_receiver_shared == "&self"

all_memory_areas_mut_receiver == "&mut self"

\* The borrow a call with this receiver needs is granted: a shared borrow
\* while no mutable borrow of the tag is live, a mutable borrow while no
\* borrow of the tag is live.
Borrowable(receiver, shared, mutable) ==
    IF receiver = "&mut self" THEN shared = <<>> /\ mutable = "none"
    ELSE mutable = "none"

RemoveAt(s, i) == SubSeq(s, 1, i - 1) \o SubSeq(s, i + 1, Len(s))

MmapInit ==
    /\ mPc = "idle"
    /\ mBytes = <<>>
    /\ mTag = [size |-> MMAP_METADATA_SIZE, entry_size |-> SizeOfMemoryArea,
               entry_version |-> 0, areas |-> <<>>]
    /\ mShared = <<>>
    /\ mMut = "none"
    /\ mEnd = [idx |-> 0, value |-> Zeros(8)]

\* A producer lays out a memory map tag: elements at entry_size intervals,
\* possibly with bytes behind the last one.
MmapRaw ==
    /\ UNCHANGED notMmap
    /\ mPc = "idle"
    /\ \E areas \in SeqsUpTo(AreaInputs, MaxAreas), es \in MmapEntrySizes,
          extra \in MmapTrailing :
         LET body == PackAreas(areas, es) \o Zeros(extra)
         IN  mBytes' = U32(TagTypeMmap) \o U32(MMAP_METADATA_SIZE + Len(body))
                          \o U32(es) \o U32(0) \o body
    /\ mPc' = "raw"
    /\ UNCHANGED <<mTag, mShared, mMut, mEnd>>

\* The cast of the tag to MemoryMapTag, with dst_size elements in areas.
MmapCast ==
    /\ UNCHANGED notMmap
    /\ mPc = "raw"
    /\ LET size == read_u32(mBytes, SizeOfTagTypeId)
           dst == MemoryMapTag_dst_size(size)
       IN  IF dst.kind = "panic"
           THEN /\ mPc' = "panic"
                /\ UNCHANGED mTag
           ELSE /\ mPc' = "tag"
                /\ mTag' = [size |-> size,
                            entry_size |-> read_u32(mBytes, 8),
                            entry_version |-> read_u32(mBytes, 12),
                            areas |-> [i \in 1..dst.n |->
                                AreaAt(mBytes, MMAP_METADATA_SIZE
                                                 + (i - 1) * SizeOfMemoryArea)]]
    /\ UNCHANGED <<mBytes, mShared, mMut, mEnd>>

\* memory_areas(): a shared view of the areas
MmapMemoryAreas ==
    /\ UNCHANGED notMmap
    /\ mPc = "tag"
    /\ Len(mShared) < MaxViews
    /\ Borrowable(memory_areas_receiver, mShared, mMut)
    /\ IF mTag.entry_size # SizeOfMemoryArea
       THEN /\ mPc' = "panic"
            /\ UNCHANGED mShared
       ELSE /\ mShared' = Append(mShared, mTag.areas)
            /\ UNCHANGED mPc
    /\ UNCHANGED <<mBytes, mTag, mMut, mEnd>>

\* all_memory_areas_mut(): the mutable view of the areas
MmapAllMemoryAreasMut ==
    /\ UNCHANGED notMmap
    /\ mPc = "tag"
    /\ mMut = "none"
    /\ Borrowable(all_memory_areas_mut_receiver, mShared, mMut)
    /\ IF mTag.entry_size # SizeOfMemoryArea
       THEN /\ mPc' = "panic"
            /\ UNCHANGED mMut
       ELSE /\ mMut' = "live"
            /\ UNCHANGED mPc
    /\ UNCHANGED <<mBytes, mTag, mShared, mEnd>>

\* The holder of the mutable view corrects the type of one area in place.
MmapWrite ==
    /\ UNCHANGED notMmap
    /\ mPc = "tag"
    /\ mMut = "live"
    /\ \E i \in 1..Len(mTag.areas) :
         /\ mTag.areas[i].typ # 2
         /\ mTag' = [mTag EXCEPT !.areas[i].typ = 2]
    /\ UNCHANGED <<mPc, mBytes, mShared, mMut, mEnd>>

\* A view goes out of scope.
MmapDrop ==
    /\ UNCHANGED notMmap
    /\ mPc = "tag"
    /\ \/ /\ mMut = "live"
          /\ mMut' = "none"
          /\ UNCHANGED mShared
       \/ /\ \E i \in 1..Len(mShared) : mShared' = RemoveAt(mShared, i)
          /\ UNCHANGED mMut
    /\ UNCHANGED <<mPc, mBytes, mTag, mEnd>>

\* MemoryArea::end_address of an element of a shared view:
\* base_addr + length in u64, aborting or wrapping when the sum does not fit.
MmapEndAddress ==
    /\ UNCHANGED notMmap
    /\ mPc = "tag"
    /\ Len(mShared) >= 1
    /\ \E i \in 1..Len(mShared[1]) :
         LET sum == AddBytes(mShared[1][i].base_addr, mShared[1][i].length)
         IN  /\ mEnd.idx # i
             /\ \/ /\ sum[9] # 0
                   /\ mPc' = "panic_add"
                   /\ UNCHANGED mEnd
                \/ /\ mEnd' = [idx |-> i, value |-> SubSeq(sum, 1, 8)]
                   /\ UNCHANGED mPc
    /\ UNCHANGED <<mBytes, mTag, mShared, mMut>>

----------------------------------------------------------------------------
(* Module tags: ModuleTag::new, ModuleIter, module_size *)

\* a - b on two n-byte values: n result bytes, then 1 if a >= b and 0 if
\* the subtraction borrows.
SubBytes(a, b) == AddCarry(a, [i \in 1..Len(b) |-> 255 - b[i]], 1)

ModuleTag_new(start, end, cmdline) ==
    LET content_bytes == to_le_bytes(start) \o to_le_bytes(end) \o as_bytes_with_nul(cmdline)
    IN  boxed_dst_tag(TagTypeModule, Len(content_bytes) + METADATA_SIZE, content_bytes)

\* (start, end) pairs handed to ModuleTag::new, and command lines.
ModuleRanges == { <<4096, 12288>>, <<12288, 4096>> }
ModuleCmdlines == { <<>>, <<65>>, <<0>> }

NewModule ==
    /\ UNCHANGED <<notStream, accessed, modIter, modSize>>
    /\ pc = "build"
    /\ Len(boxes) < MaxTags
    /\ \E r \in ModuleRanges, s \in ModuleCmdlines :
         IF HasNul(s)
         THEN \* .expect("failed to create CString") aborts
              /\ pc' = "panic"
              /\ UNCHANGED <<supplied, boxes>>
         ELSE /\ boxes' = Append(boxes, ModuleTag_new(r[1], r[2], s))
              /\ supplied' = Append(supplied,
                    [by |-> "ModuleTag", typ |-> TagTypeModule,
                     body |-> to_le_bytes(r[1]) \o to_le_bytes(r[2])
                                \o as_bytes_with_nul(s)])
              /\ pc' = pc
    /\ UNCHANGED <<buf, tamper, cursor, limit, yielded, error, reads>>

\* One call of next() on a tag iterator standing at cur: the tag there and
\* the cursor behind it, or None.
TagIter_next(region, cur, lim) ==
    IF lim - cur < 8 THEN [kind |-> "None", off |-> cur, type_code |-> 0, size |-> 0,
                           cursor |-> cur]
    ELSE LET type_code == read_u32(region, cur)
             size == read_u32(region, cur + 4)
         IN  IF \/ SizeBelowHeader(size)
                \/ IsTerminator(type_code, size)
                \/ ~Fits(cur, size, lim)
             THEN [kind |-> "None", off |-> cur, type_code |-> 0, size |-> 0,
                   cursor |-> cur]
             ELSE [kind |-> "Some", off |-> cur, type_code |-> type_code, size |-> size,
                   cursor |-> Advance(cur, size)]

\* self.iter.find(|tag| tag.typ == TagType::Module)
RECURSIVE TagIter_find_module(_, _, _)
TagIter_find_module(region, cur, lim) ==
    LET t == TagIter_next(region, cur, lim)
    IN  IF t.kind = "None" \/ t.type_code = TagTypeModule THEN t
        ELSE TagIter_find_module(region, t.cursor, lim)

\* module_iter(iter) on the tags of a loaded region.
ModuleIterNew ==
    /\ UNCHANGED <<notStream, accessed, modSize>>
    /\ pc = "walk"
    /\ modIter.pc = "idle"
    /\ modIter' = [pc |-> "iter", cursor |-> 0, out |-> <<>>]
    /\ UNCHANGED <<pc, supplied, boxes, buf, tamper, cursor, limit, yielded, error, reads>>

\* ModuleIter::next.  The length of the view's cmdline_str is
\* tag.size as usize - METADATA_SIZE: below 16 the subtraction aborts in a
\* build with overflow checks and wraps to 2^64 - (16 - size) in one without.
ModuleIterNext ==
    /\ UNCHANGED <<notStream, accessed, modSize>>
    /\ pc = "walk"
    /\ modIter.pc \in {"iter", "finished"}
    /\ modSize.kind # "panic"
    /\ LET t == TagIter_find_module(Region, modIter.cursor, limit)
           len == SubBytes(U64(t.size), U64(MODULE_METADATA_SIZE))
       IN  IF t.kind = "None"
           THEN modIter' = [modIter EXCEPT !.pc = "finished", !.cursor = t.cursor]
           ELSE \/ /\ len[9] = 0
                   /\ modIter' = [modIter EXCEPT !.pc = "panic", !.cursor = t.cursor]
                \/ modIter' = [modIter EXCEPT
                       !.cursor = t.cursor,
                       !.out = Append(@, [off |-> t.off, size |-> t.size,
                                          cmdline_str_len |-> SubSeq(len, 1, 8)])]
    /\ UNCHANGED <<pc, supplied, boxes, buf, tamper, cursor, limit, yielded, error, reads>>

\* ModuleTag::module_size on the view next() returned last:
\* mod_end - mod_start in u32.  A difference below 0 aborts in a build with
\* overflow checks and wraps in one without.
ModuleSize ==
    /\ UNCHANGED <<notStream, accessed>>
    /\ pc = "walk"
    /\ modIter.pc = "iter"
    /\ Len(modIter.out) >= 1
    /\ modSize.idx # Len(modIter.out)
    /\ modSize.kind # "panic"
    /\ LET view == modIter.out[Len(modIter.out)]
           mod_start == BytesAt(Region, view.off + 8, 4)
           mod_end == BytesAt(Region, view.off + 12, 4)
           diff == SubBytes(mod_end, mod_start)
       IN  /\ view.size >= MODULE_METADATA_SIZE
           /\ \/ /\ diff[5] = 0
                 /\ modSize' = [idx |-> Len(modIter.out), kind |-> "panic",
                                value |-> Zeros(4)]
              \/ modSize' = [idx |-> Len(modIter.out), kind |-> "Ok",
                             value |-> SubSeq(diff, 1, 4)]
    /\ UNCHANGED <<pc, supplied, boxes, buf, tamper, cursor, limit, yielded, error, reads,
                   modIter>>

----------------------------------------------------------------------------
(* Memory area types: MemoryAreaTypeId <-> MemoryAreaType *)

Available == [kind |-> "Available", val |-> 0]
Reserved == [kind |-> "Reserved", val |-> 0]
AcpiAvailable == [kind |-> "AcpiAvailable", val |-> 0]
ReservedHibernate == [kind |-> "ReservedHibernate", val |-> 0]
Defective == [kind |-> "Defective", val |-> 0]
Custom(val) == [kind |-> "Custom", val |-> val]

\* From<MemoryAreaTypeId> for MemoryAreaType
MemoryAreaType_from(value) ==
    CASE value = 1 -> Available
      [] value = 2 -> Reserved
      [] value = 3 -> AcpiAvailable
      [] value = 4 -> ReservedHibernate
      [] value = 5 -> Defective
      [] OTHER -> Custom(value)

\* From<MemoryAreaType> for MemoryAreaTypeId
MemoryAreaTypeId_from(value) ==
    CASE value.kind = "Available" -> 1
      [] value.kind = "Reserved" -> 2
      [] value.kind = "AcpiAvailable" -> 3
      [] value.kind = "ReservedHibernate" -> 4
      [] value.kind = "Defective" -> 5
      [] value.kind = "Custom" -> value.val

\* u32 values converted: the small ones and the largest the model holds.
TypeIds == 0..MaxTypeId \cup { U32Sat }

MemoryAreaTypes ==
    { Available, Reserved, AcpiAvailable, ReservedHibernate, Defective }
        \cup { Custom(n) : n \in TypeIds }

ConvInit == conv = [pc |-> "idle", from |-> "none", input |-> 0, mid |-> 0, out |-> 0]

ConvPickId ==
    /\ UNCHANGED notConv
    /\ conv.pc = "idle"
    /\ \E v \in TypeIds :
         conv' = [pc |-> "picked", from |-> "id", input |-> v, mid |-> 0, out |-> 0]

ConvPickType ==
    /\ UNCHANGED notConv
    /\ conv.pc = "idle"
    /\ \E t \in MemoryAreaTypes :
         conv' = [pc |-> "picked", from |-> "type", input |-> t, mid |-> 0, out |-> 0]

\* MemoryAreaType::from(id), then MemoryAreaTypeId::from(type)
ConvIdToType ==
    /\ UNCHANGED notConv
    /\ \/ /\ conv.pc = "picked" /\ conv.from = "id"
          /\ conv' = [conv EXCEPT !.pc = "mid", !.mid = MemoryAreaType_from(conv.input)]
       \/ /\ conv.pc = "mid" /\ conv.from = "type"
          /\ conv' = [conv EXCEPT !.pc = "done", !.out = MemoryAreaType_from(conv.mid)]

\* MemoryAreaTypeId::from(type), then MemoryAreaType::from(id)
ConvTypeToId ==
    /\ UNCHANGED notConv
    /\ \/ /\ conv.pc = "picked" /\ conv.from = "type"
          /\ conv' = [conv EXCEPT !.pc = "mid", !.mid = MemoryAreaTypeId_from(conv.input)]
       \/ /\ conv.pc = "mid" /\ conv.from = "id"
          /\ conv' = [conv EXCEPT !.pc = "done", !.out = MemoryAreaTypeId_from(conv.mid)]

NextConv ==
    \/ ConvPickId
    \/ ConvPickType
    \/ ConvIdToType
    \/ ConvTypeToId

----------------------------------------------------------------------------
(* SMBIOS tag: SmbiosTag::new and the SmbiosTag layout *)

TagTypeSmbios == 13

\* typ, size, major, minor and the 6 reserved bytes
SMBIOS_METADATA_SIZE == SizeOfTagTypeId + SizeOfU32 + 8

\* SmbiosTag::new: the content handed to boxed_dst_tag is major, minor and
\* the tables; the tag's size is the header plus that content.
SmbiosTag_new(major, minor, tables) ==
    LET bytes == <<major, minor>> \o tables
    IN  boxed_dst_tag(TagTypeSmbios, Len(bytes) + METADATA_SIZE, bytes)

\* The fields of the SmbiosTag layout over memory mem: major at byte 8, minor
\* at 9, _reserved at 10..15, tables from byte 16 to the end of the tag.
SmbiosTag_view(mem) ==
    LET size == read_u32(mem, SizeOfTagType)
    IN  [ typ |-> read_u32(mem, 0),
          size |-> size,
          major |-> ByteAt(mem, 9),
          minor |-> ByteAt(mem, 10),
          reserved |-> BytesAt(mem, 10, 6),
          tables |-> BytesAt(mem, SMBIOS_METADATA_SIZE,
                             Max(size, SMBIOS_METADATA_SIZE) - SMBIOS_METADATA_SIZE) ]

SmbMajors == { 2, 3 }
SmbMinors == { 0, 4 }
SmbTables == SeqsUpTo({ 171, 7 }, MaxTables) \cup { [i \in 1..8 |-> 171] }

SmbInit ==
    smb = [pc |-> "idle", major |-> 0, minor |-> 0, tables |-> <<>>, mem |-> <<>>,
           view |-> SmbiosTag_view(Zeros(SMBIOS_METADATA_SIZE))]

SmbNew ==
    /\ UNCHANGED notSmb
    /\ smb.pc = "idle"
    /\ \E major \in SmbMajors, minor \in SmbMinors, tables \in SmbTables :
         smb' = [smb EXCEPT !.pc = "tag", !.major = major, !.minor = minor,
                            !.tables = tables,
                            !.mem = SmbiosTag_new(major, minor, tables).mem]

\* The fields of the tag new() returned, read through the SmbiosTag layout.
SmbRead ==
    /\ UNCHANGED notSmb
    /\ smb.pc = "tag"
    /\ smb' = [smb EXCEPT !.pc = "read", !.view = SmbiosTag_view(smb.mem)]

NextSmb ==
    \/ SmbNew
    \/ SmbRead

----------------------------------------------------------------------------
(* Specifications *)

vars == <<streamVars, strVars, efiVars, fbVars, elfVars, mmapVars, conv, smb>>

Init ==
    /\ StreamInit /\ StrInit /\ EfiInit /\ FbInit /\ ElfInit /\ MmapInit
    /\ ConvInit /\ SmbInit

Next ==
    \/ NewCommandLine
    \/ NewElfSections
    \/ ForeignTag
    \/ ForeignCommandLine
    \/ AssembleBlob
    \/ Truncate
    \/ TruncateFix
    \/ PatchSize
    \/ PatchType
    \/ Load
    \/ TagStreamNext
    \/ CallCommandLine

Spec == Init /\ [][Next]_vars

NextStr ==
    \/ RawStringTag
    \/ CastStringTag
    \/ CallStringAccessor

\* Module tags in a region: build, assemble, load, iterate.
NextMod ==
    \/ NewModule
    \/ ForeignTag
    \/ AssembleBlob
    \/ Load
    \/ ModuleIterNew
    \/ ModuleIterNext
    \/ ModuleSize

SpecMod == Init /\ [][NextMod]_vars

SpecConv == Init /\ [][NextConv]_vars

SpecSmb == Init /\ [][NextSmb]_vars

SpecStr == Init /\ [][NextStr]_vars

NextEfi ==
    \/ EfiNewFromMap
    \/ EfiNewFromDescs
    \/ EfiRawTag
    \/ EfiMemoryAreas
    \/ EfiNext
    \/ EfiLen

SpecEfi == Init /\ [][NextEfi]_vars

NextFb ==
    \/ FbNew
    \/ FbRaw
    \/ FbCast
    \/ FbBufferType

SpecFb == Init /\ [][NextFb]_vars

NextElf ==
    \/ ElfRawTag
    \/ ElfSections
    \/ ElfNext
    \/ ElfAccess
    \/ ElfEndAddress

SpecElf == Init /\ [][NextElf]_vars

NextMmap ==
    \/ MmapRaw
    \/ MmapCast
    \/ MmapMemoryAreas
    \/ MmapAllMemoryAreasMut
    \/ MmapWrite
    \/ MmapDrop
    \/ MmapEndAddress

SpecMmap == Init /\ [][NextMmap]_vars

----------------------------------------------------------------------------
(* Properties of the builder, the assembler and the tag stream *)

Untouched == tamper = "none"

BodyBytesWritten(box) ==
    Cardinality({ j \in (METADATA_SIZE + 1)..Len(box.mem) : box.mem[j] # Uninit })

\* C8: every builder constructor writes size = 8 + the number of body bytes
\* it writes after the header.
C8_SizeIsHeaderPlusBody ==
    \A i \in 1..Len(boxes) :
        supplied[i].by # "foreign" =>
            byte_size(boxes[i]) = 8 + BodyBytesWritten(boxes[i])

\* C1: walking the assembled blob yields as many tags as were built, in the
\* same order, each with the type code and exactly the body supplied.
C1_RoundTrip ==
    (pc = "done" /\ Untouched) =>
        /\ Len(yielded) = Len(supplied)
        /\ \A i \in 1..Len(supplied) :
              i <= Len(yielded) =>
                  /\ yielded[i].type_code = supplied[i].typ
                  /\ yielded[i].body = supplied[i].body

OrigSize(i) == byte_size(boxes[i])

Assembled == pc \in {"blob", "walk", "done"}

\* C9: the blob is the header {total_size, 0}, each tag's bytes followed by
\* zero bytes up to the next multiple of 8, and the terminator {0, 8};
\* total_size is 8 + the sum of the 8-aligned tag sizes + 8 and is the length
\* of the blob; one 18-byte tag gives 40.
C9_AssemblerLayout ==
    (Assembled /\ Untouched) =>
        LET n == Len(boxes)
            end == OrigOff(n + 1)
        IN  /\ Len(buf) = end + 8
            /\ read_u32(buf, 0) = Len(buf)
            /\ read_u32(buf, 4) = 0
            /\ \A i \in 1..n :
                  /\ \A j \in 1..OrigSize(i) : buf[OrigOff(i) + j] = boxes[i].mem[j]
                  /\ OrigOff(i + 1) - (OrigOff(i) + OrigSize(i)) = (8 - (OrigSize(i) % 8)) % 8
                  /\ \A j \in (OrigSize(i) + 1)..(OrigOff(i + 1) - OrigOff(i)) :
                        buf[OrigOff(i) + j] = 0
            /\ read_u32(buf, end) = 0
            /\ read_u32(buf, end + 4) = 8
            /\ (n = 1 /\ OrigSize(1) = 18) => read_u32(buf, 0) = 40

C9_Witness ==
    /\ pc = "blob"
    /\ Untouched
    /\ Len(boxes) = 1
    /\ OrigSize(1) = 18
    /\ Len(buf) = 40

\* C5: in a well-formed blob every yielded tag starts a multiple of 8 bytes
\* after the first tag.
C5_Alignment ==
    Untouched =>
        \A k \in 1..Len(yielded) : (yielded[k].off - yielded[1].off) % 8 = 0

C5_Witness ==
    /\ Untouched
    /\ Len(yielded) = 2
    /\ yielded[1].size % 8 # 0
    /\ yielded[2].off = 16

\* C6: no yielded tag has type code 0, and no tag lying behind a header of
\* type code 0 is yielded.
C6_TerminatorNeverYielded ==
    \A k \in 1..Len(yielded) :
        /\ yielded[k].type_code # TagTypeEnd
        /\ (tamper = "patchtype") =>
              \A i \in 1..Len(boxes) :
                  read_u32(buf, OrigOff(i)) = TagTypeEnd => yielded[k].off + 8 < OrigOff(i)

C6_Witness ==
    /\ pc = "done"
    /\ tamper = "patchtype"
    /\ Len(boxes) = 2
    /\ read_u32(buf, OrigOff(2)) = TagTypeEnd
    /\ read_u32(buf, OrigOff(2) + 4) # 8
    /\ Len(yielded) = 1

\* C7: tags are yielded in strictly increasing offset order; from a
\* well-formed blob the k-th yielded tag is the k-th tag of the blob, whatever
\* its type code, and at the end every tag before the terminator was yielded
\* once.
C7_OnWireOrder ==
    /\ \A k \in 1..(Len(yielded) - 1) : yielded[k].off < yielded[k + 1].off
    /\ Untouched =>
          /\ Len(yielded) <= Len(boxes)
          /\ \A k \in 1..Len(yielded) :
                /\ yielded[k].off + 8 = OrigOff(k)
                /\ yielded[k].type_code = supplied[k].typ
          /\ pc = "done" => Len(yielded) = Len(boxes)

C7_Witness ==
    /\ pc = "done"
    /\ Untouched
    /\ Len(yielded) = 2
    /\ yielded[1].type_code \in UnknownTypes
    /\ yielded[2].type_code = yielded[1].type_code

\* C4: a tag of unrecognised type is stepped over by align_up(size, 8), and
\* every tag after it is yielded with its own header and body.
C4_UnknownTagTolerance ==
    Untouched =>
        \A i \in 1..Len(boxes) :
            supplied[i].typ \in UnknownTypes =>
                /\ Len(yielded) > i =>
                      yielded[i + 1].off = yielded[i].off + align_up(OrigSize(i), 8)
                /\ pc = "done" =>
                      \A j \in (i + 1)..Len(boxes) :
                          /\ Len(yielded) >= j
                          /\ yielded[j].type_code = supplied[j].typ
                          /\ yielded[j].size = OrigSize(j)
                          /\ yielded[j].body =
                                [b \in 1..(OrigSize(j) - 8) |-> boxes[j].mem[8 + b]]

C4_Witness ==
    /\ pc = "done"
    /\ Untouched
    /\ Len(yielded) = 2
    /\ supplied[1].typ \in UnknownTypes
    /\ OrigSize(1) % 8 # 0
    /\ yielded[2].type_code = TagTypeCmdline
    /\ yielded[2].body = <<65, 0>>

\* The header says more bytes than were supplied.
HeaderOverrun == Len(buf) < 8 \/ read_u32(buf, 0) > Len(buf)

\* Tag i is the first damaged tag and its declared size exceeds the bytes
\* remaining after its offset.
TagOverrun(i) ==
    /\ OrigOff(i) + 8 <= Len(buf)
    /\ read_u32(buf, OrigOff(i)) # TagTypeEnd
    /\ read_u32(buf, OrigOff(i) + 4) > Len(buf) - OrigOff(i)
    /\ \A j \in 1..(i - 1) :
          /\ read_u32(buf, OrigOff(j)) = supplied[j].typ
          /\ read_u32(buf, OrigOff(j) + 4) = OrigSize(j)

C10_StringBeforeNul ==
    (sPc = "called" /\ Len(sTag.string) >= 1) =>
        LET n == Len(sTag.string)
            text == SubSeq(sTag.string, 1, n - 1)
        IN  (sTag.string[n] = 0 /\ from_utf8_ok(text)) =>
                /\ sResult.kind = "Ok"
                /\ sResult.str = text
                /\ Len(sResult.str) = sTag.size - MetadataSizeOf(sKind) - 1

C10_Witness ==
    /\ sPc = "called"
    /\ sKind = "Module"
    /\ sTag.size = 19
    /\ sTag.string = <<195, 169, 0>>
    /\ sResult = [kind |-> "Ok", str |-> <<195, 169>>]

\* C3: whatever the stride desc_size = 40 + k, memory_areas() yields the n
\* descriptors packed, the i-th read from offset i * desc_size and equal to
\* the i-th descriptor packed, whatever the bytes between the descriptors.
C3_StrideIndependence ==
    eTag.desc_size >= SizeOfEFIMemoryDesc =>
        /\ ePc # "fault"
        /\ \A j \in 1..Len(eOut) :
              /\ eOut[j].off = (j - 1) * eTag.desc_size
              /\ eOut[j].desc = eDescs[j]
        /\ ePc = "finished" => Len(eOut) = Len(eDescs)

\* C3, for the strides that keep every descriptor 8-aligned: the same
\* statement holds.
C3_AlignedStrides ==
    (eTag.desc_size >= SizeOfEFIMemoryDesc /\ eTag.desc_size % AlignOfEFIMemoryDesc = 0) =>
        /\ ePc # "fault"
        /\ \A j \in 1..Len(eOut) :
              /\ eOut[j].off = (j - 1) * eTag.desc_size
              /\ eOut[j].desc = eDescs[j]
        /\ ePc = "finished" => Len(eOut) = Len(eDescs)

C3_AlignedWitness ==
    /\ ePc = "finished"
    /\ eTag.desc_size = 48
    /\ Len(eOut) = 2
    /\ eOut[2].off = 48
    /\ eTag.memory_map[41] = 170

\* C11: a string tag whose string field is empty (size = METADATA_SIZE, no
\* NUL byte) makes the accessor return an error value; the accessor does not
\* abort.
C11_NoPanicOnEmptyString ==
    (sPc = "called" /\ Len(sTag.string) = 0) => sResult.kind = "Err"

\* The bytes before the final NUL of a string field are not valid UTF-8.
InvalidBeforeNul(string) ==
    /\ Len(string) >= 1
    /\ string[Len(string)] = 0
    /\ ~from_utf8_ok(SubSeq(string, 1, Len(string) - 1))

\* C12: command_line() on a tag whose bytes before the final NUL are not
\* valid UTF-8 returns an error value and does not abort, and the walk goes
\* on as without the call: from a well-formed blob the tags yielded are the
\* tags of the blob in order, all of them once the walk has ended.
C12_EncodingErrorIsLocal ==
    (accessed.idx >= 1 /\ InvalidBeforeNul(yielded[accessed.idx].body)) =>
        /\ accessed.result.kind = "Err"
        /\ pc # "panic"
        /\ Untouched =>
              /\ \A j \in 1..Len(yielded) :
                    /\ yielded[j].off + 8 = OrigOff(j)
                    /\ yielded[j].type_code = supplied[j].typ
              /\ pc = "done" => (Len(yielded) = Len(boxes) /\ error = "none")

C12_Witness ==
    /\ pc = "done"
    /\ Untouched
    /\ accessed.idx = 1
    /\ accessed.result.kind = "Err"
    /\ yielded[1].body = <<255, 0>>
    /\ Len(yielded) = 2
    /\ yielded[2].type_code = TagTypeCmdline
    /\ yielded[2].body = <<65, 0>>

\* C13: for a discriminant byte other than 0, 1 and 2, buffer_type() returns
\* the error UnknownVariant carrying that byte; it does not abort and it
\* returns none of Indexed, RGB, Text.
C13_UnknownVariantIsTyped ==
    (fPc \in {"called", "panic"} /\ fTag.type_no \notin {0, 1, 2}) =>
        /\ fPc = "called"
        /\ fResult.value.kind = "UnknownVariant"
        /\ fResult.value.code = fTag.type_no

\* C14: discriminant 0 gives Indexed with count colours, colour i the three
\* bytes at 4 + 3 * i of the buffer; discriminant 1 gives RGB with red, green
\* and blue the (position, size) byte pairs at 0, 2 and 4; discriminant 2
\* gives Text and moves the reader by nothing; a tag built by
\* FramebufferTag::new from a FramebufferType gives that FramebufferType back.
C14_FramebufferDispatch ==
    fPc = "called" =>
        LET b == fTag.buffer
            v == fResult.value
        IN  /\ fTag.type_no = 0 =>
                  /\ v.kind = "Indexed"
                  /\ Len(v.palette) = read_u32(b, 0)
                  /\ \A i \in 1..Len(v.palette) :
                        ColorBytes(v.palette[i]) = BytesAt(b, 4 + 3 * (i - 1), 3)
            /\ fTag.type_no = 1 =>
                  /\ v.kind = "RGB"
                  /\ \A j \in 1..3 :
                        FieldBytes(v.rgb[j]) = SubSeq(b, 2 * j - 1, 2 * j)
            /\ fTag.type_no = 2 => (v = Text /\ fResult.off = 0)
            /\ fBuilt # NoResult =>
                  /\ v = fBuilt
                  /\ SubSeq(fBytes, FB_TYPE_NO_OFFSET + 1, Len(fBytes)) = to_bytes(fBuilt)

C14_Witness ==
    /\ fPc = "called"
    /\ fBuilt.kind = "Indexed"
    /\ Len(fBuilt.palette) = 2
    /\ fResult.value = fBuilt
    /\ fResult.value.palette[2] = [red |-> 1, green |-> 2, blue |-> 3]

\* C16: sections() places the string-table element at first_section +
\* shndx * entry_size, the exact product of the two u32 fields (it neither
\* wraps modulo 2^32 nor aborts), and the string table address of a section
\* is the addr field of that element plus the offset handed to sections().
C16_StringTableElement ==
    /\ ~(xPc = "panic" /\ xMsg = "attempt to multiply with overflow")
    /\ xPc \in {"iter", "finished"} =>
          xIter.string_section =
              string_section_offset_exact(xTag.shndx, xTag.entry_size)
    /\ (xAcc.idx >= 1 /\ xTag.shndx < Len(xEntries)) =>
          LET e == xEntries[xTag.shndx + 1]
              addr == IF xTag.entry_size = SizeOfElfSectionInner64 THEN e.addr
                      ELSE SubSeq(e.addr, 1, 4) \o Zeros(4)
          IN  xAcc.string_table = SubSeq(AddBytes(addr, U64(xOffset)), 1, 8)

\* C17: for an entry_size of at least the nominal 40 bytes, neither the
\* section iterator nor an accessor aborts on the entry size, and every
\* section header of a type other than Unused is returned.
C17_AccessorsTolerateStride ==
    xTag.entry_size >= SizeOfElfSectionInner32 =>
        /\ ~(xPc = "panic" /\ xMsg = "Unexpected entry size")
        /\ xPc = "finished" =>
              Len(xOut) = Cardinality({ i \in 1..Len(xEntries) :
                                          section_type_of(xEntries[i].typ) # "Unused" })

\* C19: end_address() is start_address() + size() as an exact sum: for no
\* values of the two fields does the call abort or return the sum reduced
\* modulo 2^64.
C19_EndAddressExact ==
    /\ ~(xPc = "panic" /\ xMsg = "attempt to add with overflow")
    /\ xEnd.idx >= 1 =>
          LET s == xOut[xEnd.idx]
              layout == get(s.entry_size)
          IN  xEnd.value \o <<0>> =
                  AddBytes(Inner_addr(xTag.sections, s.inner, layout),
                           Inner_size(xTag.sections, s.inner, layout))

\* C19, for MemoryArea: the same statement about base_addr + length.
C19_MemoryAreaEndAddress ==
    /\ mPc # "panic_add"
    /\ (mEnd.idx >= 1 /\ Len(mShared) >= 1) =>
          mEnd.value \o <<0>> =
              AddBytes(mShared[1][mEnd.idx].base_addr, mShared[1][mEnd.idx].length)

\* C15: when the bytes behind the fixed fields of a memory map tag are not a
\* whole number of elements, the caller is handed a structural error: the
\* program is not aborted and no view with a rounded element count exists.
C15_StrideMismatchIsError ==
    (mPc # "idle" /\ mPc # "raw"
        /\ (read_u32(mBytes, SizeOfTagTypeId) - MMAP_METADATA_SIZE) % SizeOfMemoryArea # 0)
    => mPc = "StructuralError"

\* C20: while the view of all_memory_areas_mut() is live no other view of the
\* areas is, so every live view of memory_areas() shows the areas as they
\* are; views of memory_areas() coexist while no mutable view is live.
C20_ExclusiveMutableAccess ==
    /\ mMut = "live" => mShared = <<>>
    /\ \A v \in 1..Len(mShared) : mShared[v] = mTag.areas

C20_Witness ==
    /\ mPc = "tag"
    /\ mMut = "live"
    /\ mShared = <<>>
    /\ Len(mTag.areas) = 2
    /\ mTag.areas[1].typ = 2
    /\ AreaAt(mBytes, MMAP_METADATA_SIZE).typ = 1

C20_SharedViewsCoexist ==
    /\ mPc = "tag"
    /\ mMut = "none"
    /\ Len(mShared) = 2
    /\ Len(mTag.areas) = 2

\* C18: new_from_descs(descs) returns a tag whose desc_size is a multiple of
\* 8 and at least 40 (48), whose memory map is descs.len() * desc_size bytes
\* with descriptor i in the first 40 bytes at i * desc_size and zeros behind
\* it, and on which memory_areas() yields descs in order and then None.
C18_NewFromDescs ==
    eBy = "new_from_descs" =>
        LET ds == eTag.desc_size
            map == eTag.memory_map
        IN  /\ ePc # "panic"
            /\ ePc # "fault"
            /\ ePc # "idle" =>
                  /\ ds % 8 = 0
                  /\ ds >= SizeOfEFIMemoryDesc
                  /\ ds = 48
                  /\ Len(map) = Len(eDescs) * ds
                  /\ \A i \in 1..Len(eDescs) :
                        /\ SubSeq(map, (i - 1) * ds + 1, (i - 1) * ds + SizeOfEFIMemoryDesc)
                              = DescBytes(eDescs[i])
                        /\ \A j \in (SizeOfEFIMemoryDesc + 1)..ds : map[(i - 1) * ds + j] = 0
            /\ \A j \in 1..Len(eOut) : eOut[j].desc = eDescs[j]
            /\ ePc = "finished" => Len(eOut) = Len(eDescs)

\* C15, for the EFI memory map: a memory_map whose length is not a multiple
\* of desc_size gives the caller an error and does not abort.
C15_EfiStrideMismatch ==
    (ePc \notin {"idle", "tag"} /\ eTag.desc_size > 0
        /\ Len(eTag.memory_map) % eTag.desc_size # 0)
    => ePc = "StructuralError"

----------------------------------------------------------------------------
(* Properties of the walks: termination, iteration order, conversions *)

\* C21: every walk of the tag stream is finite: every yielded tag has a size
\* of at least 8 and lies at least 8 bytes behind the one before it, the
\* cursor is at least 8 bytes per yielded tag into the region, so at most
\* limit / 8 tags are yielded, whatever the region holds; and the walk has
\* ended only where fewer than 8 bytes remain, the size is below 8, the type
\* is the terminator's, or cursor + size exceeds the limit.
C21_WalkTerminates ==
    /\ \A k \in 1..Len(yielded) : yielded[k].size >= 8
    /\ \A k \in 1..(Len(yielded) - 1) : yielded[k + 1].off >= yielded[k].off + 8
    /\ Len(yielded) <= limit \div 8
    /\ pc \in {"walk", "done"} => cursor >= 8 * Len(yielded)
    /\ pc = "done" =>
          \/ limit - cursor < 8
          \/ read_u32(Region, cursor + 4) < 8
          \/ read_u32(Region, cursor) = TagTypeEnd
          \/ read_u32(Region, cursor + 4) > limit - cursor

\* A damaged region: one tag was yielded, then a size below 8 ended the walk
\* with more than a header's worth of bytes remaining.
C21_Witness ==
    /\ pc = "done"
    /\ tamper = "patchsize"
    /\ Len(yielded) = 1
    /\ limit - cursor >= 8
    /\ read_u32(Region, cursor) # TagTypeEnd
    /\ read_u32(Region, cursor + 4) < 8

\* C21, as a liveness property: a walk that is called again and again ends.
SpecWalk == Spec /\ WF_vars(TagStreamNext)

C21_WalkEnds == (pc = "walk") ~> (pc # "walk")

\* The raw types (4 bytes, little-endian) of the ranges 1..=11 and
\* 0x6000_0000..=0x7FFF_FFFF.
RawTypeIsUsed(typ) ==
    \/ typ[4] = 0 /\ typ[3] = 0 /\ typ[2] = 0 /\ typ[1] \in 1..11
    \/ typ[4] \in 96..127

\* The indices of the entries whose raw type is in one of the ranges.
RECURSIVE UsedFrom(_, _)
UsedFrom(entries, i) ==
    IF i > Len(entries) THEN <<>>
    ELSE IF RawTypeIsUsed(entries[i].typ) THEN <<i>> \o UsedFrom(entries, i + 1)
    ELSE UsedFrom(entries, i + 1)

RECURSIVE ModulesFrom(_)
ModulesFrom(i) ==
    IF i > Len(supplied) THEN <<>>
    ELSE IF supplied[i].typ = TagTypeModule THEN <<i>> \o ModulesFrom(i + 1)
    ELSE ModulesFrom(i + 1)

\* C23: ModuleIter returns the tags of type Module of the region and no
\* other, in the order of the region, each as a view whose cmdline_str holds
\* size - 16 bytes; it does not abort, and when it has returned None every
\* module tag of the region was returned.
C23_ModuleIterYieldsModules ==
    LET mods == ModulesFrom(1)
    IN  /\ modIter.pc # "panic"
        /\ Len(modIter.out) <= Len(mods)
        /\ \A k \in 1..Len(modIter.out) :
              LET view == modIter.out[k]
              IN  /\ view.off + 8 = OrigOff(mods[k])
                  /\ view.size = 8 + Len(supplied[mods[k]].body)
                  /\ view.size >= MODULE_METADATA_SIZE
                  /\ view.cmdline_str_len = U64(view.size - MODULE_METADATA_SIZE)
        /\ modIter.pc = "finished" => Len(modIter.out) = Len(mods)

\* C24: module_size() does not abort and returns mod_end - mod_start.
C24_ModuleSizeExact ==
    /\ modSize.kind # "panic"
    /\ modSize.kind = "Ok" =>
          LET view == modIter.out[modSize.idx]
              mod_start == read_u32(Region, view.off + 8)
              mod_end == read_u32(Region, view.off + 12)
          IN  /\ mod_end >= mod_start
              /\ modSize.value = U32(mod_end - mod_start)

\* C25: converting a MemoryAreaTypeId to a MemoryAreaType and back gives the
\* id, and converting a MemoryAreaType to a MemoryAreaTypeId and back gives
\* the type.
C25_ConversionsInverse ==
    conv.pc = "done" => conv.out = conv.input

\* C25, the direction that starts from the id.
C25_IdRoundTrip ==
    (conv.pc = "done" /\ conv.from = "id") => conv.out = conv.input

\* C26: len() is the number of descriptors next() has still to return:
\* entries at the start, one less after each descriptor, 0 once next()
\* returned None.
C26_LenIsRemaining ==
    eLen.called => eLen.value = eEntries - eLen.i

\* C27: for a tag found in a region, whatever its desc_size, making the
\* iterator does not abort on the desc_size, and every descriptor returned
\* lies inside memory_map.
C27_DescriptorsInsideMap ==
    eBy = "region" =>
        /\ ePc = "panic" => eTag.desc_size # 0
        /\ \A k \in 1..Len(eOut) :
              eOut[k].off + SizeOfEFIMemoryDesc <= Len(eTag.memory_map)

\* C27, the descriptors alone.
C27_NoReadPastMap ==
    \A k \in 1..Len(eOut) : eOut[k].off + SizeOfEFIMemoryDesc <= Len(eTag.memory_map)

\* C28: the iteration stays inside the sections bytes: an iterator exists
\* only for a tag with number_of_sections * entry_size <= the length of
\* sections and shndx < number_of_sections, every entry next() has examined
\* lies inside sections, and sections() does not abort on an empty sections
\* region.
C28_IterationInsideTag ==
    /\ xPc \in {"iter", "finished", "fault"} =>
          /\ xTag.number_of_sections * xTag.entry_size <= Len(xTag.sections)
          /\ xTag.shndx < xTag.number_of_sections
          /\ xIter.current_section <= Len(xTag.sections)
    /\ xPc = "panic" => xMsg # "index out of bounds"

\* C28, the entries examined alone: none lies outside sections.
C28_NoEntryOutside ==
    xPc \in {"iter", "finished", "fault"} => xIter.current_section <= Len(xTag.sections)

\* C28, the empty sections region alone.
C28_EmptySectionsNoAbort ==
    xPc = "panic" => xMsg # "index out of bounds"

\* C29: the palette buffer_type() returns for an indexed framebuffer lies
\* inside the bytes behind the fixed fields: 4 + count * 3 <= their length,
\* whatever count the tag holds, or no palette is returned.
C29_PaletteInsideTag ==
    (fPc = "called" /\ fTag.type_no = 0 /\ fResult.value.kind = "Indexed") =>
        4 + Len(fResult.value.palette) * SizeOfFramebufferColor <= Len(fTag.buffer)

\* C30: the tag SmbiosTag::new(major, minor, tables) returns, read through
\* the SmbiosTag layout, has that major and minor, six zero reserved bytes,
\* tables equal to the argument, and size 16 + tables.len().
C30_SmbiosRoundTrip ==
    smb.pc = "read" =>
        /\ smb.view.typ = TagTypeSmbios
        /\ smb.view.major = smb.major
        /\ smb.view.minor = smb.minor
        /\ smb.view.reserved = Zeros(6)
        /\ smb.view.tables = smb.tables
        /\ smb.view.size = SMBIOS_METADATA_SIZE + Len(smb.tables)

\* C30, the version fields alone: major and minor are read back.
C30_VersionReadBack ==
    smb.pc = "read" =>
        /\ smb.view.typ = TagTypeSmbios
        /\ smb.view.major = smb.major
        /\ smb.view.minor = smb.minor
        /\ smb.view.size = METADATA_SIZE + 2 + Len(smb.tables)

====
